---- MODULE Spec2Model ----
(***************************************************************************)
(* A model of the generic DFA library of pkg/fsm: the Builder, the Machine *)
(* it builds, and the Runner that steps over a Machine.                    *)
(*                                                                         *)
(* The state and symbol types of the library are generic (any comparable   *)
(* Go type).  The model instantiates them as the tests do, with strings:   *)
(* the zero value of the state type is the empty string.                   *)
(***************************************************************************)
EXTENDS Bags, FiniteSets, Integers, Sequences, TLC

(***************************************************************************)
(* Bounds of the model.                                                    *)
(***************************************************************************)
\* values of the state type S the callers pass as labels
StateLabels == {"A", "B"}
\* values of the symbol type Sym the callers pass
SymbolLabels == {"x", "y"}
\* the runners the callers hold
Runners == {"r1", "r2"}
\* how many mutating Builder calls (AddState, AddSymbol, SetInitial, On, and
\* the field writes of the in-package tests) a run makes
MaxBuilderOps == 3
\* how many Start and Step calls a run asks for, directly or through Eval
\* (an Eval of n symbols asks for one Start and n Steps)
MaxRunnerOps == 3

\* zero value of the state type (var zero S)
Zero == ""
\* every value of the state type that occurs
StateValues == StateLabels \cup {Zero}

\* absent machine / runner pointer
Nil == [type |-> "nil"]

(***************************************************************************)
(* errors.go                                                               *)
(***************************************************************************)
\* a nil error
NilErr == [type |-> "nil"]

TransitionError(from, sym) ==
    [type |-> "TransitionError", From |-> from, Symbol |-> sym]

\* newBuildError(format, args...): the message is identified by its format and arguments
None == "-"
newBuildError(format, a1, a2) ==
    [type |-> "BuildError", format |-> format, a1 |-> a1, a2 |-> a2]

\* ValidationErrors.errors; the order of the entries appended while ranging
\* over a Go map is not fixed, so the list is kept as a multiset
EmptyErrors == EmptyBag

\* ValidationErrors.Append for one error
Append1(verr, err) == verr (+) SetToBag({err})

\* the appends of one range loop: one Append of msg[i] for every item i ranged over
AppendEach(verr, msg) ==
    LET es == {msg[i] : i \in DOMAIN msg}
    IN  verr (+) [e \in es |-> Cardinality({i \in DOMAIN msg : msg[i] = e})]

IsEmpty(verr) == BagCardinality(verr) = 0

\* ValidationErrors.AsError: nil iff the list is empty
AsError(verr) == IF IsEmpty(verr) THEN NilErr ELSE [type |-> "ValidationErrors", errors |-> verr]

(***************************************************************************)
(* TransitionKey and transition maps                                       *)
(***************************************************************************)
TransitionKey(from, sym) == [From |-> from, Symbol |-> sym]

Keys == [From : StateLabels, Symbol : SymbolLabels]

\* the empty map
EmptyMap == [k \in {} |-> Zero]

\* Go map assignment m[key] = to
MapPut(m, key, to) == [k \in (DOMAIN m) \cup {key} |-> IF k = key THEN to ELSE m[k]]

(***************************************************************************)
(* Builder (builder.go).  A Builder value is a record of the struct's      *)
(* fields; every method is an operator from the receiver (and arguments)   *)
(* to the receiver after the call.                                         *)
(***************************************************************************)
\* all settings of buildOptions
BuildOptions ==
    [preventOverwriteTransitions : BOOLEAN,
     requireTotalTransitions : BOOLEAN,
     requireAtLeastOneAccepting : BOOLEAN,
     errorOnUnreachableStates : BOOLEAN,
     errorWhenNoAcceptingReachable : BOOLEAN]

\* the zero buildOptions: no Option passed
DefaultOptions ==
    [preventOverwriteTransitions |-> FALSE,
     requireTotalTransitions |-> FALSE,
     requireAtLeastOneAccepting |-> FALSE,
     errorOnUnreachableStates |-> FALSE,
     errorWhenNoAcceptingReachable |-> FALSE]

NewBuilder(opts) ==
    [states |-> {}, symbols |-> {}, initialSet |-> FALSE, initialState |-> Zero,
     accepting |-> {}, transitions |-> EmptyMap, options |-> opts]

\* faulty AddState (C12 fails on it): the flag is assigned, so false clears it
AddState_AssignsFlag(b, state, isAccepting) ==
    [b EXCEPT !.states = @ \cup {state},
              !.accepting = IF isAccepting THEN @ \cup {state} ELSE @ \ {state}]

\* faulty AddState (C13 fails on it): a true flag toggles the membership in F
AddState_TogglesFlag(b, state, isAccepting) ==
    [b EXCEPT !.states = @ \cup {state},
              !.accepting = IF ~isAccepting THEN @
                            ELSE IF state \in @ THEN @ \ {state} ELSE @ \cup {state}]

\* faulty AddState (C33 fails on it): an accepting state is put in F only
AddState_AcceptingOnly(b, state, isAccepting) ==
    IF isAccepting
    THEN [b EXCEPT !.accepting = @ \cup {state}]
    ELSE [b EXCEPT !.states = @ \cup {state}]

AddState(b, state, isAccepting) ==
    [b EXCEPT !.states = @ \cup {state},
              !.accepting = IF isAccepting THEN @ \cup {state} ELSE @]

\* faulty SetInitial (C14 fails on it): an initial state already set is kept
SetInitial_KeepsFirst(b, state) ==
    [b EXCEPT !.initialSet = TRUE,
              !.initialState = IF b.initialSet THEN @ ELSE state,
              !.states = @ \cup {state}]

\* faulty SetInitial (C31 fails on it): the states registered before are dropped
SetInitial_ResetsStates(b, state) ==
    [b EXCEPT !.initialSet = TRUE,
              !.initialState = state,
              !.states = {state}]

\* faulty SetInitial (C30 fails on it): the initial state it replaces is
\* taken out of the states
SetInitial_DropsOld(b, state) ==
    [b EXCEPT !.initialSet = TRUE,
              !.initialState = state,
              !.states = (IF b.initialSet THEN @ \ {b.initialState} ELSE @) \cup {state}]

\* faulty SetInitial (C28 fails on it): the state is not registered
SetInitial_NotRegistered(b, state) ==
    [b EXCEPT !.initialSet = TRUE,
              !.initialState = state]

SetInitial(b, state) ==
    [b EXCEPT !.initialSet = TRUE,
              !.initialState = state,
              !.states = @ \cup {state}]

AddSymbol(b, sym) ==
    [b EXCEPT !.symbols = @ \cup {sym}]

\* faulty panic condition (C17 fails on it): any recorded transition out of
\* `from` counts as a definition of the pair
OnPanics_AnyTransitionFrom(b, from, sym) ==
    /\ \E k \in DOMAIN b.transitions : k.From = from
    /\ b.options.preventOverwriteTransitions

\* the condition under which On panics
OnPanics(b, from, sym) ==
    /\ TransitionKey(from, sym) \in DOMAIN b.transitions
    /\ b.options.preventOverwriteTransitions

\* faulty On (C15 fails on it): the target is not registered as a state
On_TargetNotRegistered(b, from, sym, to) ==
    LET registered == [b EXCEPT !.states = @ \cup {from},
                                !.symbols = @ \cup {sym}]
    IN  IF OnPanics(b, from, sym)
        THEN registered
        ELSE [registered EXCEPT
                 !.transitions = MapPut(@, TransitionKey(from, sym), to)]

\* faulty On (C16 fails on it): a pair that has a transition keeps it
On_KeepsFirst(b, from, sym, to) ==
    LET registered == [b EXCEPT !.states = @ \cup {from, to},
                                !.symbols = @ \cup {sym}]
    IN  IF OnPanics(b, from, sym) \/ TransitionKey(from, sym) \in DOMAIN b.transitions
        THEN registered
        ELSE [registered EXCEPT
                 !.transitions = MapPut(@, TransitionKey(from, sym), to)]

\* faulty On (C35 fails on it): the duplicate check comes before the registration
On_ChecksFirst(b, from, sym, to) ==
    IF OnPanics(b, from, sym)
    THEN b
    ELSE [b EXCEPT !.states = @ \cup {from, to},
                   !.symbols = @ \cup {sym},
                   !.transitions = MapPut(@, TransitionKey(from, sym), to)]

\* the receiver after On(from, sym, to), whether it returned or panicked
On(b, from, sym, to) ==
    LET registered == [b EXCEPT !.states = @ \cup {from, to},
                                !.symbols = @ \cup {sym}]
    IN  IF OnPanics(b, from, sym)
        THEN registered
        ELSE [registered EXCEPT
                 !.transitions = MapPut(@, TransitionKey(from, sym), to)]

\* delete(b.states, state): the in-package tests write the Builder's fields
DeleteState(b, state) == [b EXCEPT !.states = @ \ {state}]

\* b.transitions[key] = to, written by the in-package tests without On
PutTransition(b, from, sym, to) ==
    [b EXCEPT !.transitions = MapPut(@, TransitionKey(from, sym), to)]

\* faulty total check (C20 fails on it): only the states that have some
\* transition are ranged over
checkRequireTotalTransitions_SkipsEmptyRows(b, verr) ==
    IF ~b.options.requireTotalTransitions
    THEN verr
    ELSE AppendEach(verr,
            [p \in {q \in {k.From : k \in DOMAIN b.transitions} \X b.symbols :
                       TransitionKey(q[1], q[2]) \notin DOMAIN b.transitions}
                |-> newBuildError("missing transition from %v on %v", p[1], p[2])])

\* faulty check (C32 fails on it): only the initial state must have every transition
checkRequireTotalTransitions_OfInitial(b, verr) ==
    IF ~b.options.requireTotalTransitions
    THEN verr
    ELSE AppendEach(verr,
            [p \in {q \in (b.states \cap {b.initialState}) \X b.symbols :
                       TransitionKey(q[1], q[2]) \notin DOMAIN b.transitions}
                |-> newBuildError("missing transition from %v on %v", p[1], p[2])])

checkRequireTotalTransitions(b, verr) ==
    IF ~b.options.requireTotalTransitions
    THEN verr
    ELSE AppendEach(verr,
            [p \in {q \in b.states \X b.symbols :
                       TransitionKey(q[1], q[2]) \notin DOMAIN b.transitions}
                |-> newBuildError("missing transition from %v on %v", p[1], p[2])])

\* faulty check (C23 fails on it): what is required accepting is the initial state
checkRequireAtLeastOneAccepting_OfInitial(b, verr) ==
    IF b.options.requireAtLeastOneAccepting /\ b.initialState \notin b.accepting
    THEN Append1(verr, newBuildError("at least one accepting state required", None, None))
    ELSE verr

checkRequireAtLeastOneAccepting(b, verr) ==
    IF b.options.requireAtLeastOneAccepting /\ Cardinality(b.accepting) = 0
    THEN Append1(verr, newBuildError("at least one accepting state required", None, None))
    ELSE verr

\* some enumeration of a set, as a Go range over a map yields one
RECURSIVE SetToSeq(_)
SetToSeq(S) ==
    IF S = {} THEN <<>>
    ELSE LET e == CHOOSE e \in S : TRUE IN <<e>> \o SetToSeq(S \ {e})

\* faulty traversal (C39 fails on it): a state is marked reached when it is
\* taken from the queue, not when it is appended
RECURSIVE Traverse_MarksWhenTaken(_, _, _, _)
Traverse_MarksWhenTaken(b, queue, reached, i) ==
    IF i > Len(queue)
    THEN [reached |-> reached, queue |-> queue]
    ELSE LET cur == queue[i]
             new == {b.transitions[key] :
                        key \in {k \in DOMAIN b.transitions : k.From = cur}} \ reached
         IN  Traverse_MarksWhenTaken(b, queue \o SetToSeq(new),
                                     reached \cup {cur}, i + 1)

\* the traversal loop of checkReachability, from index i of the queue
RECURSIVE Traverse(_, _, _, _)
Traverse(b, queue, reached, i) ==
    IF i > Len(queue)
    THEN [reached |-> reached, queue |-> queue]
    ELSE LET cur == queue[i]
             new == {b.transitions[key] :
                        key \in {k \in DOMAIN b.transitions : k.From = cur}} \ reached
         IN  Traverse(b, queue \o SetToSeq(new), reached \cup new, i + 1)

\* faulty start of the traversal (C21 fails on it): the initial state is
\* queued but not marked, so it counts as reached only if a transition leads to it
Reached_InitialNotMarked(b) == Traverse(b, <<b.initialState>>, {}, 1).reached

\* the set `reached` that checkReachability computes
Reached(b) == Traverse(b, <<b.initialState>>, {b.initialState}, 1).reached

\* faulty reachability check (C22 fails on it): one failure for every
\* accepting state that is not reached
checkReachability_PerAcceptingState(b, verr) ==
    IF ~b.initialSet
       \/ ~(b.options.errorOnUnreachableStates \/ b.options.errorWhenNoAcceptingReachable)
    THEN verr
    ELSE LET reached == Reached(b)
             v1 == IF b.options.errorOnUnreachableStates
                   THEN AppendEach(verr,
                            [s \in b.states \ reached
                                |-> newBuildError("unreachable state %v", s, None)])
                   ELSE verr
         IN  IF b.options.errorWhenNoAcceptingReachable
             THEN AppendEach(v1,
                      [s \in b.accepting \ reached
                          |-> newBuildError("no accepting state reachable from initial",
                                            None, None)])
             ELSE v1

\* faulty reachability check (C29 fails on it): it runs also when no initial
\* state was set, from the zero value of initialState
checkReachability_WithoutInitial(b, verr) ==
    IF ~(b.options.errorOnUnreachableStates \/ b.options.errorWhenNoAcceptingReachable)
    THEN verr
    ELSE LET reached == Reached(b)
             v1 == IF b.options.errorOnUnreachableStates
                   THEN AppendEach(verr,
                            [s \in b.states \ reached
                                |-> newBuildError("unreachable state %v", s, None)])
                   ELSE verr
         IN  IF b.options.errorWhenNoAcceptingReachable
                /\ ~(\E s \in b.accepting : s \in reached)
             THEN Append1(v1, newBuildError("no accepting state reachable from initial",
                                            None, None))
             ELSE v1

\* faulty check (C37 fails on it): an empty F is left to requireAtLeastOneAccepting
checkReachability_SkipsEmptyAccepting(b, verr) ==
    IF ~b.initialSet
       \/ ~(b.options.errorOnUnreachableStates \/ b.options.errorWhenNoAcceptingReachable)
    THEN verr
    ELSE LET reached == Reached(b)
             v1 == IF b.options.errorOnUnreachableStates
                   THEN AppendEach(verr,
                            [s \in b.states \ reached
                                |-> newBuildError("unreachable state %v", s, None)])
                   ELSE verr
         IN  IF b.options.errorWhenNoAcceptingReachable
                /\ b.accepting # {}
                /\ ~(\E s \in b.accepting : s \in reached)
             THEN Append1(v1, newBuildError("no accepting state reachable from initial",
                                            None, None))
             ELSE v1

checkReachability(b, verr) ==
    IF ~b.initialSet
       \/ ~(b.options.errorOnUnreachableStates \/ b.options.errorWhenNoAcceptingReachable)
    THEN verr
    ELSE LET reached == Reached(b)
             v1 == IF b.options.errorOnUnreachableStates
                   THEN AppendEach(verr,
                            [s \in b.states \ reached
                                |-> newBuildError("unreachable state %v", s, None)])
                   ELSE verr
         IN  IF b.options.errorWhenNoAcceptingReachable
                /\ ~(\E s \in b.accepting : s \in reached)
             THEN Append1(v1, newBuildError("no accepting state reachable from initial",
                                            None, None))
             ELSE v1

\* faulty checks (C18 fails on it): the targets of the transitions are not checked
checkAlways_TargetsUnchecked(b) ==
    LET v1 == IF ~b.initialSet
              THEN Append1(EmptyErrors, newBuildError("initial state must be set", None, None))
              ELSE EmptyErrors
        v2 == IF Cardinality(b.states) = 0
              THEN Append1(v1, newBuildError("at least one state is required", None, None))
              ELSE v1
        v3 == IF Cardinality(b.symbols) = 0
              THEN Append1(v2, newBuildError("at least one input symbol is required",
                                             None, None))
              ELSE v2
        v4 == AppendEach(v3,
                  [s \in b.accepting \ b.states
                      |-> newBuildError("accepting state unknown %v", s, None)])
        v5 == AppendEach(v4,
                  [k \in {j \in DOMAIN b.transitions : j.From \notin b.states}
                      |-> newBuildError("transition from unknown state %v", k.From, None)])
        v6 == AppendEach(v5,
                  [k \in {j \in DOMAIN b.transitions : j.Symbol \notin b.symbols}
                      |-> newBuildError("transition uses unknown symbol %v", k.Symbol, None)])
    IN  v6

\* faulty checks (C19 fails on it): an empty alphabet is not reported
checkAlways_EmptyAlphabetPasses(b) ==
    LET v1 == IF ~b.initialSet
              THEN Append1(EmptyErrors, newBuildError("initial state must be set", None, None))
              ELSE EmptyErrors
        v2 == IF Cardinality(b.states) = 0
              THEN Append1(v1, newBuildError("at least one state is required", None, None))
              ELSE v1
        v3 == v2
        v4 == AppendEach(v3,
                  [s \in b.accepting \ b.states
                      |-> newBuildError("accepting state unknown %v", s, None)])
        v5 == AppendEach(v4,
                  [k \in {j \in DOMAIN b.transitions : j.From \notin b.states}
                      |-> newBuildError("transition from unknown state %v", k.From, None)])
        v6 == AppendEach(v5,
                  [k \in {j \in DOMAIN b.transitions : j.Symbol \notin b.symbols}
                      |-> newBuildError("transition uses unknown symbol %v", k.Symbol, None)])
    IN  AppendEach(v6,
            [k \in {j \in DOMAIN b.transitions : b.transitions[j] \notin b.states}
                |-> newBuildError("transition to unknown state %v", b.transitions[k], None)])

\* the checks of Build that no option controls
checkAlways(b) ==
    LET v1 == IF ~b.initialSet
              THEN Append1(EmptyErrors, newBuildError("initial state must be set", None, None))
              ELSE EmptyErrors
        v2 == IF Cardinality(b.states) = 0
              THEN Append1(v1, newBuildError("at least one state is required", None, None))
              ELSE v1
        v3 == IF Cardinality(b.symbols) = 0
              THEN Append1(v2, newBuildError("at least one input symbol is required",
                                             None, None))
              ELSE v2
        v4 == AppendEach(v3,
                  [s \in b.accepting \ b.states
                      |-> newBuildError("accepting state unknown %v", s, None)])
        v5 == AppendEach(v4,
                  [k \in {j \in DOMAIN b.transitions : j.From \notin b.states}
                      |-> newBuildError("transition from unknown state %v", k.From, None)])
        v6 == AppendEach(v5,
                  [k \in {j \in DOMAIN b.transitions : j.Symbol \notin b.symbols}
                      |-> newBuildError("transition uses unknown symbol %v", k.Symbol, None)])
    IN  AppendEach(v6,
            [k \in {j \in DOMAIN b.transitions : b.transitions[j] \notin b.states}
                |-> newBuildError("transition to unknown state %v", b.transitions[k], None)])

\* faulty validation (C9 fails on it): Build returns at the first failed check
Validate_StopsAtFirst(b) ==
    IF ~b.initialSet
    THEN Append1(EmptyErrors, newBuildError("initial state must be set", None, None))
    ELSE checkReachability(b,
            checkRequireAtLeastOneAccepting(b,
                checkRequireTotalTransitions(b, checkAlways(b))))

\* faulty validation (C34 fails on it): an accepting state is required
\* whatever the options
Validate_AlwaysRequiresAccepting(b) ==
    checkReachability(b,
        checkRequireAtLeastOneAccepting(
            [b EXCEPT !.options.requireAtLeastOneAccepting = TRUE],
            checkRequireTotalTransitions(b, checkAlways(b))))

\* the list Build has collected when it reaches verr.AsError()
Validate(b) ==
    checkReachability(b,
        checkRequireAtLeastOneAccepting(b,
            checkRequireTotalTransitions(b, checkAlways(b))))

\* faulty copy (C8 fails on it): the initial state is put in the accepting set
CopyMachine_InitialAccepting(b) ==
    [type |-> "Machine",
     initialState |-> b.initialState,
     accepting |-> b.accepting \cup {b.initialState},
     transitions |-> [k \in DOMAIN b.transitions |-> b.transitions[k]]]

\* the Machine Build copies out of the Builder
CopyMachine(b) ==
    [type |-> "Machine",
     initialState |-> b.initialState,
     accepting |-> b.accepting,
     transitions |-> [k \in DOMAIN b.transitions |-> b.transitions[k]]]

\* faulty Build (C10 fails on it): the maps are moved into the Machine, not copied
Build_MovesMaps(b) ==
    LET err == AsError(Validate(b))
    IN  [builder |-> IF err # NilErr THEN b
                     ELSE [b EXCEPT !.accepting = {}, !.transitions = EmptyMap],
         machine |-> IF err # NilErr THEN Nil ELSE CopyMachine(b),
         err |-> err,
         shares |-> {}]

\* faulty Build (C11 fails on it): the Machine is handed the Builder's own
\* maps instead of the copies acc and trans
Build_SharesMaps(b) ==
    LET err == AsError(Validate(b))
    IN  [builder |-> b,
         machine |-> IF err # NilErr THEN Nil ELSE CopyMachine(b),
         err |-> err,
         shares |-> IF err # NilErr THEN {} ELSE {"accepting", "transitions"}]

\* Build: the receiver after the call, the two values returned, and the maps
\* of the receiver that the returned Machine holds as its own fields.  A Go
\* map is a reference: Build makes the new maps acc and trans for the
\* Machine, so it shares none.
Build(b) ==
    LET err == AsError(Validate(b))
    IN  [builder |-> b,
         machine |-> IF err # NilErr THEN Nil ELSE CopyMachine(b),
         err |-> err,
         shares |-> {}]

\* Machine m after the Builder's fields became those of b, when m holds the
\* maps named in shared as its own fields: a write to a shared map shows in m
WriteThrough(m, shared, b) ==
    IF m = Nil THEN Nil
    ELSE [m EXCEPT !.accepting = IF "accepting" \in shared THEN b.accepting ELSE @,
                   !.transitions = IF "transitions" \in shared
                                   THEN b.transitions ELSE @]

\* the receiver after one call, given as a record of its name and arguments
Apply(b, call) ==
    CASE call.op = "AddState" -> AddState(b, call.state, call.isAccepting)
      [] call.op = "SetInitial" -> SetInitial(b, call.state)
      [] call.op = "AddSymbol" -> AddSymbol(b, call.sym)
      [] call.op = "On" -> On(b, call.from, call.sym, call.to)

\* the receiver after the calls cs, made in order on b
RECURSIVE Replay(_, _)
Replay(b, cs) == IF cs = <<>> THEN b ELSE Replay(Apply(b, Head(cs)), Tail(cs))

(***************************************************************************)
(* Machine and Runner.  A Machine value is a record of the struct's fields *)
(* and never changes; a Runner is a record of its Machine and its cursor.  *)
(***************************************************************************)
\* faulty Start (C5 fails on it): the cursor is left at the zero value
Start_AtZero(m) == [type |-> "Runner", machine |-> m, state |-> Zero]

\* Machine.Start
Start(m) == [type |-> "Runner", machine |-> m, state |-> m.initialState]

\* Runner.State
State(r) == r.state

\* Machine.Accepting
Accepting(m, state) == state \in m.accepting

\* every order in which a Go range can yield the keys of a map with key set S
RECURSIVE Orderings(_)
Orderings(S) ==
    IF S = {} THEN {<<>>}
    ELSE UNION {{<<e>> \o o : o \in Orderings(S \ {e})} : e \in S}

\* the slice `states` after the values of seq were appended, each unless seen
RECURSIVE AppendUnseen(_, _)
AppendUnseen(states, seq) ==
    IF seq = <<>> THEN states
    ELSE AppendUnseen(IF \E i \in 1..Len(states) : states[i] = Head(seq)
                      THEN states ELSE Append(states, Head(seq)),
                      Tail(seq))

\* the from and to of the transitions of m, ranged over in the order keys
RECURSIVE FromTo(_, _)
FromTo(m, keys) ==
    IF keys = <<>> THEN <<>>
    ELSE <<Head(keys).From, m.transitions[Head(keys)]>> \o FromTo(m, Tail(keys))

\* Machine.States: the slices the call can return, one for each order in
\* which the two range loops can yield the accepting states and the transitions
States(m) ==
    {AppendUnseen(AppendUnseen(<<m.initialState>>, acc), FromTo(m, keys)) :
        acc \in Orderings(m.accepting), keys \in Orderings(DOMAIN m.transitions)}

\* Machine.InitialState
InitialState(m) == m.initialState

\* Machine.GetTransition: the pair (to, ok) of a Go map lookup
GetTransition(m, from, symbol) ==
    IF TransitionKey(from, symbol) \in DOMAIN m.transitions
    THEN [to |-> m.transitions[TransitionKey(from, symbol)], ok |-> TRUE]
    ELSE [to |-> Zero, ok |-> FALSE]

\* faulty HasTransition (C25 fails on it): any transition out of `from` counts
HasTransition_AnySymbol(m, from, symbol) ==
    \E k \in DOMAIN m.transitions : k.From = from

\* Machine.HasTransition
HasTransition(m, from, symbol) == GetTransition(m, from, symbol).ok

\* r.machine.transitions[r.state]: the transitions out of one state, by symbol.
\* Runner.Step indexes the transitions by state and then by symbol; over the
\* map keyed by TransitionKey that row holds the entries whose From is the
\* state, and it is nil (empty here) when there is none.
Row(m, state) ==
    [sym \in {k.Symbol : k \in {k \in DOMAIN m.transitions : k.From = state}}
        |-> m.transitions[TransitionKey(state, sym)]]

\* faulty Step (C1 fails on it): the cursor is assigned the looked-up value
\* before the lookup's ok is checked
Step_AssignsBeforeCheck(r, sym) ==
    LET row == Row(r.machine, r.state)
    IN  IF DOMAIN row = {}
        THEN [runner |-> r, err |-> TransitionError(r.state, sym)]
        ELSE IF sym \notin DOMAIN row
        THEN [runner |-> [r EXCEPT !.state = Zero], err |-> TransitionError(r.state, sym)]
        ELSE [runner |-> [r EXCEPT !.state = row[sym]], err |-> NilErr]

\* faulty Step (C2 fails on it): a state without any transition is not an error
Step_NilRowIsNoError(r, sym) ==
    LET row == Row(r.machine, r.state)
    IN  IF DOMAIN row = {}
        THEN [runner |-> r, err |-> NilErr]
        ELSE IF sym \notin DOMAIN row
        THEN [runner |-> r, err |-> TransitionError(r.state, sym)]
        ELSE [runner |-> [r EXCEPT !.state = row[sym]], err |-> NilErr]

\* Runner.Step: the receiver after the call, and the error returned
Step(r, sym) ==
    LET row == Row(r.machine, r.state)
    IN  IF DOMAIN row = {}
        THEN [runner |-> r, err |-> TransitionError(r.state, sym)]
        ELSE IF sym \notin DOMAIN row
        THEN [runner |-> r, err |-> TransitionError(r.state, sym)]
        ELSE [runner |-> [r EXCEPT !.state = row[sym]], err |-> NilErr]

\* faulty Eval loop (C3 fails on it): the error of Step is dropped
RECURSIVE EvalLoop_IgnoresError(_, _, _)
EvalLoop_IgnoresError(r, input, i) ==
    IF i > Len(input)
    THEN [state |-> State(r), err |-> NilErr]
    ELSE EvalLoop_IgnoresError(Step(r, input[i]).runner, input, i + 1)

\* faulty Eval loop (C4 fails on it): the last symbol is not consumed
RECURSIVE EvalLoop_OffByOne(_, _, _)
EvalLoop_OffByOne(r, input, i) ==
    IF i >= Len(input)
    THEN [state |-> State(r), err |-> NilErr]
    ELSE LET res == Step(r, input[i])
         IN  IF res.err # NilErr
             THEN [state |-> Zero, err |-> res.err]
             ELSE EvalLoop_OffByOne(res.runner, input, i + 1)

\* faulty Eval loop (C6 fails on it): on error the cursor's state is returned
RECURSIVE EvalLoop_ReturnsStateOnError(_, _, _)
EvalLoop_ReturnsStateOnError(r, input, i) ==
    IF i > Len(input)
    THEN [state |-> State(r), err |-> NilErr]
    ELSE LET res == Step(r, input[i])
         IN  IF res.err # NilErr
             THEN [state |-> State(r), err |-> res.err]
             ELSE EvalLoop_ReturnsStateOnError(res.runner, input, i + 1)

\* the loop of Eval over input[i..], with runner r
RECURSIVE EvalLoop(_, _, _)
EvalLoop(r, input, i) ==
    IF i > Len(input)
    THEN [state |-> State(r), err |-> NilErr]
    ELSE LET res == Step(r, input[i])
         IN  IF res.err # NilErr
             THEN [state |-> Zero, err |-> res.err]
             ELSE EvalLoop(res.runner, input, i + 1)

\* Machine.Eval
Eval(m, input) == EvalLoop(Start(m), input, 1)

\* faulty EvalAccepting (C7 fails on it): the error of Eval is not returned
EvalAccepting_SwallowsError(m, input) ==
    LET res == Eval(m, input)
    IN  [accepting |-> Accepting(m, res.state), err |-> NilErr]

\* Machine.EvalAccepting
EvalAccepting(m, input) ==
    LET res == Eval(m, input)
    IN  IF res.err # NilErr
        THEN [accepting |-> FALSE, err |-> res.err]
        ELSE [accepting |-> Accepting(m, res.state), err |-> NilErr]

(***************************************************************************)
(* The program: one Builder, the Machine its last successful Build         *)
(* returned, and the Runners started on the Machines.                      *)
(***************************************************************************)
VARIABLES
    builder,    \* the Builder
    machine,    \* the Machine the last successful Build returned, or Nil
    runner,     \* runner[r]: Nil or the Runner the caller holds under the name r
    consumed,   \* consumed[r]: the symbols runner[r] has stepped over since Start
    last,       \* the last call and what it returned
    nb,         \* mutating Builder calls made
    nr,         \* Start and Step calls asked for
    shares,     \* the maps of the Builder that `machine` holds as its own fields
    recording,  \* whether the run keeps the history `calls`
    calls       \* history: the mutating Builder calls made, in order

vars == <<builder, machine, runner, consumed, last, nb, nr, shares, recording, calls>>

\* the inputs handed to Eval and EvalAccepting
Inputs == UNION {[1..n -> SymbolLabels] : n \in 0..(MaxRunnerOps - 1)}

InitWith(opts) ==
    /\ builder = NewBuilder(opts)
    /\ machine = Nil
    /\ runner = [r \in Runners |-> Nil]
    /\ consumed = [r \in Runners |-> <<>>]
    /\ last = [op |-> "NewBuilder"]
    /\ nb = 0
    /\ nr = 0
    /\ shares = {}
    /\ recording = FALSE
    /\ calls = <<>>

\* NewBuilder with any options
Init == \E opts \in BuildOptions : InitWith(opts)

\* NewBuilder with no option
InitDefault == InitWith(DefaultOptions)

\* the history after one more call
Log(call) == IF recording THEN Append(calls, call) ELSE calls

\* what a mutating Builder call that leaves the receiver as b does besides:
\* it counts, it is logged, and the maps the Machine shares show the writes
Mutated(b, call) ==
    /\ nb' = nb + 1
    /\ calls' = Log(call)
    /\ machine' = WriteThrough(machine, shares, b)
    /\ UNCHANGED <<runner, consumed, nr, shares, recording>>

CallAddState(state, isAccepting) ==
    /\ nb < MaxBuilderOps
    /\ builder' = AddState(builder, state, isAccepting)
    /\ last' = [op |-> "AddState"]
    /\ Mutated(builder', [op |-> "AddState", state |-> state, isAccepting |-> isAccepting])

CallSetInitial(state) ==
    /\ nb < MaxBuilderOps
    /\ builder' = SetInitial(builder, state)
    /\ last' = [op |-> "SetInitial"]
    /\ Mutated(builder', [op |-> "SetInitial", state |-> state])

CallAddSymbol(sym) ==
    /\ nb < MaxBuilderOps
    /\ builder' = AddSymbol(builder, sym)
    /\ last' = [op |-> "AddSymbol"]
    /\ Mutated(builder', [op |-> "AddSymbol", sym |-> sym])

\* On, returning or panicking (the caller recovers a panic, as the tests do)
CallOn(from, sym, to) ==
    /\ nb < MaxBuilderOps
    /\ builder' = On(builder, from, sym, to)
    /\ last' = [op |-> "On", panicked |-> OnPanics(builder, from, sym)]
    /\ Mutated(builder', [op |-> "On", from |-> from, sym |-> sym, to |-> to])

\* m, err := b.Build(); the caller keeps the Machine of a successful Build
CallBuild ==
    LET res == Build(builder)
    IN  /\ builder' = res.builder
        /\ machine' = IF res.err = NilErr THEN res.machine ELSE machine
        /\ shares' = IF res.err = NilErr THEN res.shares ELSE shares
        /\ last' = [op |-> "Build", machine |-> res.machine, err |-> res.err]
        /\ UNCHANGED <<runner, consumed, nb, nr, recording, calls>>

\* r := m.Start()
CallStart(r) ==
    /\ machine # Nil
    /\ nr < MaxRunnerOps
    /\ runner' = [runner EXCEPT ![r] = Start(machine)]
    /\ consumed' = [consumed EXCEPT ![r] = <<>>]
    /\ last' = [op |-> "Start", r |-> r]
    /\ nr' = nr + 1
    /\ UNCHANGED <<builder, machine, nb, shares, recording, calls>>

\* faulty Step call (C27 fails on it): the cursor is kept with the Machine, so
\* every Runner of the Machine moves
CallStep_SharedCursor(r, sym) ==
    /\ runner[r] # Nil
    /\ nr < MaxRunnerOps
    /\ LET res == Step(runner[r], sym)
       IN  /\ runner' = [q \in Runners |->
                            IF runner[q] # Nil /\ runner[q].machine = runner[r].machine
                            THEN [runner[q] EXCEPT !.state = res.runner.state]
                            ELSE runner[q]]
           /\ consumed' = IF res.err = NilErr
                          THEN [consumed EXCEPT ![r] = Append(@, sym)]
                          ELSE consumed
           /\ last' = [op |-> "Step", r |-> r, sym |-> sym, err |-> res.err]
    /\ nr' = nr + 1
    /\ UNCHANGED <<builder, machine, nb, shares, recording, calls>>

\* err := r.Step(sym)
CallStep(r, sym) ==
    /\ runner[r] # Nil
    /\ nr < MaxRunnerOps
    /\ LET res == Step(runner[r], sym)
       IN  /\ runner' = [runner EXCEPT ![r] = res.runner]
           /\ consumed' = IF res.err = NilErr
                          THEN [consumed EXCEPT ![r] = Append(@, sym)]
                          ELSE consumed
           /\ last' = [op |-> "Step", r |-> r, sym |-> sym, err |-> res.err]
    /\ nr' = nr + 1
    /\ UNCHANGED <<builder, machine, nb, shares, recording, calls>>

\* state, err := m.Eval(input)
CallEval(input) ==
    /\ machine # Nil
    /\ nr + 1 + Len(input) <= MaxRunnerOps
    /\ LET res == Eval(machine, input)
       IN  last' = [op |-> "Eval", input |-> input, state |-> res.state, err |-> res.err]
    /\ nr' = nr + 1 + Len(input)
    /\ UNCHANGED <<builder, machine, runner, consumed, nb, shares, recording, calls>>

\* ok, err := m.EvalAccepting(input)
CallEvalAccepting(input) ==
    /\ machine # Nil
    /\ nr + 1 + Len(input) <= MaxRunnerOps
    /\ LET res == EvalAccepting(machine, input)
       IN  last' = [op |-> "EvalAccepting", input |-> input,
                    accepting |-> res.accepting, err |-> res.err]
    /\ nr' = nr + 1 + Len(input)
    /\ UNCHANGED <<builder, machine, runner, consumed, nb, shares, recording, calls>>

\* the in-package tests deleting a registered state
CallDeleteState(state) ==
    /\ nb < MaxBuilderOps
    /\ builder' = DeleteState(builder, state)
    /\ last' = [op |-> "DeleteState"]
    /\ Mutated(builder', [op |-> "DeleteState", state |-> state])

\* the in-package tests writing a transition
CallPutTransition(from, sym, to) ==
    /\ nb < MaxBuilderOps
    /\ builder' = PutTransition(builder, from, sym, to)
    /\ last' = [op |-> "PutTransition"]
    /\ Mutated(builder', [op |-> "PutTransition", from |-> from, sym |-> sym, to |-> to])

\* the mutating calls on the Builder
NextCalls ==
    \/ \E s \in StateLabels, f \in BOOLEAN : CallAddState(s, f)
    \/ \E s \in StateLabels : CallSetInitial(s)
    \/ \E a \in SymbolLabels : CallAddSymbol(a)
    \/ \E s \in StateLabels, a \in SymbolLabels, t \in StateLabels : CallOn(s, a, t)

\* the calls on the Builder
NextBuilder == NextCalls \/ CallBuild

\* the calls on a Machine, with the Runners in rs
NextMachine(rs) ==
    \/ \E r \in rs : CallStart(r)
    \/ \E r \in rs, a \in SymbolLabels : CallStep(r, a)
    \/ \E input \in Inputs : CallEval(input)
    \/ \E input \in Inputs : CallEvalAccepting(input)

\* the writes of the in-package tests to the Builder's fields
NextInternal ==
    \/ \E s \in StateLabels : CallDeleteState(s)
    \/ \E s \in StateLabels, a \in SymbolLabels, t \in StateLabels :
          CallPutTransition(s, a, t)

\* every call, with one Runner
Next == NextBuilder \/ NextMachine({"r1"})

\* the calls that make a Machine (On registers the states it names) and the
\* calls that run it, with all Runners
NextRunners ==
    \/ \E s \in StateLabels : CallSetInitial(s)
    \/ \E a \in SymbolLabels : CallAddSymbol(a)
    \/ \E s \in StateLabels, a \in SymbolLabels, t \in StateLabels : CallOn(s, a, t)
    \/ CallBuild
    \/ \E r \in Runners : CallStart(r)
    \/ \E r \in Runners, a \in SymbolLabels : CallStep(r, a)
    \/ \E input \in Inputs : CallEval(input)

\* a Builder with any options, up to its Build calls
SpecBuilder == Init /\ [][NextBuilder]_vars

\* the same, with the in-package tests' writes to the Builder's fields
SpecInternal == Init /\ [][NextBuilder \/ NextInternal]_vars

\* a Builder without options, built, and its Machines run
SpecMachine == InitDefault /\ [][Next]_vars

\* a Builder without options, built, and its Machines run by several Runners
SpecRunners == InitDefault /\ [][NextRunners]_vars

\* the options of the runs that keep their history: the two reachability
\* policies, which no mutating call reads, stay off
RecordedOptions ==
    {o \in BuildOptions :
        ~o.errorOnUnreachableStates /\ ~o.errorWhenNoAcceptingReachable}

\* NewBuilder in a run that keeps the history of its calls
InitRecorded ==
    \E opts \in RecordedOptions :
        /\ builder = NewBuilder(opts)
        /\ machine = Nil
        /\ runner = [r \in Runners |-> Nil]
        /\ consumed = [r \in Runners |-> <<>>]
        /\ last = [op |-> "NewBuilder"]
        /\ nb = 0
        /\ nr = 0
        /\ shares = {}
        /\ recording = TRUE
        /\ calls = <<>>

\* state labels for the Builders whose reachability is checked: a third
\* label, as in TestStatesMethod, allows paths of two transitions and two
\* states off the paths from the initial state
ReachLabels == StateLabels \cup {"C"}

\* the options that vary for them: the two reachability policies
ReachOptions ==
    {o \in BuildOptions :
        /\ ~o.preventOverwriteTransitions
        /\ ~o.requireTotalTransitions
        /\ ~o.requireAtLeastOneAccepting}

InitReach == \E opts \in ReachOptions : InitWith(opts)

\* the calls on a Builder over the three labels
NextReach ==
    \/ \E s \in ReachLabels, f \in BOOLEAN : CallAddState(s, f)
    \/ \E s \in ReachLabels : CallSetInitial(s)
    \/ \E a \in SymbolLabels : CallAddSymbol(a)
    \/ \E s \in ReachLabels, a \in SymbolLabels, t \in ReachLabels : CallOn(s, a, t)
    \/ CallBuild

\* a Builder over three labels with the reachability policies, up to its Builds
SpecReach == InitReach /\ [][NextReach]_vars

\* the options of the runs with a Runner: WithRequireTotalTransitions or none
TotalOptions ==
    {o \in BuildOptions :
        /\ ~o.preventOverwriteTransitions
        /\ ~o.requireAtLeastOneAccepting
        /\ ~o.errorOnUnreachableStates
        /\ ~o.errorWhenNoAcceptingReachable}

InitTotal == \E opts \in TotalOptions : InitWith(opts)

\* the calls that make a Machine and the calls of one Runner
NextTotal ==
    \/ \E s \in StateLabels : CallSetInitial(s)
    \/ \E a \in SymbolLabels : CallAddSymbol(a)
    \/ \E s \in StateLabels, a \in SymbolLabels, t \in StateLabels : CallOn(s, a, t)
    \/ CallBuild
    \/ CallStart("r1")
    \/ \E a \in SymbolLabels : CallStep("r1", a)

\* a Builder with or without total transitions, built, and its Machines run
SpecTotal == InitTotal /\ [][NextTotal]_vars

(***************************************************************************)
(* examples/mod3: the remainder automaton over binary input                *)
(***************************************************************************)
\* how long the inputs evaluated on the remainder automaton get
Mod3MaxLen == 4

\* the options mod3.Build passes to NewBuilder
Mod3Options ==
    [DefaultOptions EXCEPT !.preventOverwriteTransitions = TRUE,
                           !.errorOnUnreachableStates = TRUE,
                           !.errorWhenNoAcceptingReachable = TRUE]

\* the calls of mod3.Build before b.Build(), up to the transitions
Mod3Registration ==
    <<[op |-> "AddState", state |-> "S0", isAccepting |-> TRUE],
      [op |-> "AddState", state |-> "S1", isAccepting |-> TRUE],
      [op |-> "AddState", state |-> "S2", isAccepting |-> TRUE],
      [op |-> "SetInitial", state |-> "S0"],
      [op |-> "AddSymbol", sym |-> "0"],
      [op |-> "AddSymbol", sym |-> "1"]>>

\* faulty transitions (C26 fails on them): the two targets of S1 are swapped
Mod3Transitions_S1Swapped ==
    <<[op |-> "On", from |-> "S0", sym |-> "0", to |-> "S0"],
      [op |-> "On", from |-> "S0", sym |-> "1", to |-> "S1"],
      [op |-> "On", from |-> "S1", sym |-> "0", to |-> "S0"],
      [op |-> "On", from |-> "S1", sym |-> "1", to |-> "S2"],
      [op |-> "On", from |-> "S2", sym |-> "0", to |-> "S1"],
      [op |-> "On", from |-> "S2", sym |-> "1", to |-> "S2"]>>

\* the On calls of mod3.Build
Mod3Transitions ==
    <<[op |-> "On", from |-> "S0", sym |-> "0", to |-> "S0"],
      [op |-> "On", from |-> "S0", sym |-> "1", to |-> "S1"],
      [op |-> "On", from |-> "S1", sym |-> "0", to |-> "S2"],
      [op |-> "On", from |-> "S1", sym |-> "1", to |-> "S0"],
      [op |-> "On", from |-> "S2", sym |-> "0", to |-> "S1"],
      [op |-> "On", from |-> "S2", sym |-> "1", to |-> "S2"]>>

\* the bytes of the inputs: the two binary digits and one other byte
Mod3Bytes == {"0", "1", "2"}

\* the inputs evaluated
Mod3Inputs == UNION {[1..n -> Mod3Bytes] : n \in 0..Mod3MaxLen}

\* the Builder of mod3.Build when it reaches b.Build()
Mod3Builder == Replay(NewBuilder(Mod3Options), Mod3Registration \o Mod3Transitions)

InitMod3 == InitWith(Mod3Options)

\* m, err := mod3.Build()
CallMod3Build ==
    /\ LET res == Build(Mod3Builder)
       IN  /\ builder' = res.builder
           /\ machine' = res.machine
           /\ shares' = res.shares
           /\ last' = [op |-> "Build", machine |-> res.machine, err |-> res.err]
    /\ UNCHANGED <<runner, consumed, nb, nr, recording, calls>>

\* state, err := m.Eval(bs)
CallMod3Eval(input) ==
    /\ machine # Nil
    /\ LET res == Eval(machine, input)
       IN  last' = [op |-> "Eval", input |-> input, state |-> res.state, err |-> res.err]
    /\ UNCHANGED <<builder, machine, runner, consumed, nb, nr, shares, recording, calls>>

NextMod3 ==
    \/ CallMod3Build
    \/ \E input \in Mod3Inputs : CallMod3Eval(input)

\* the remainder automaton, built once and evaluated
SpecMod3 == InitMod3 /\ [][NextMod3]_vars

\* the characters of the strings given to ModThree: the binary digits,
\* another ASCII character and a character of two bytes in UTF-8
Mod3Runes == Mod3Bytes \cup {"U+00E9"}

\* the strings given to ModThree, as the characters `range` yields
Mod3Strings == UNION {[1..n -> Mod3Runes] : n \in 0..Mod3MaxLen}

\* the bytes of one character in a string
UTF8(char) == IF char = "U+00E9" THEN <<"0xC3", "0xA9">> ELSE <<char>>

\* []byte(binary)
RECURSIVE Bytes(_)
Bytes(binary) ==
    IF binary = <<>> THEN <<>> ELSE UTF8(Head(binary)) \o Bytes(Tail(binary))

\* the index `range binary` yields with character number n: its byte offset
ByteOffset(binary, n) == Len(Bytes(SubSeq(binary, 1, n - 1)))

\* fmt.Errorf(format, args...): the message is identified by its format and arguments
Errorf(format, a1, a2) == [type |-> "error", format |-> format, a1 |-> a1, a2 |-> a2]

\* getMachine: machineOnce keeps the outcome of the first mod3.Build, and
\* every mod3.Build has the same outcome
getMachine == Build(Mod3Builder)

\* faulty ModThree (C38 fails on it): the input is evaluated unvalidated
ModThree_Unvalidated(binary) ==
    IF binary = <<>>
    THEN [value |-> 0, err |-> NilErr, evaluated |-> FALSE]
    ELSE LET got == getMachine
         IN  IF got.err # NilErr
             THEN [value |-> 0, err |-> got.err, evaluated |-> FALSE]
             ELSE LET res == Eval(got.machine, Bytes(binary))
                  IN  IF res.err # NilErr
                      THEN [value |-> 0, err |-> res.err, evaluated |-> TRUE]
                      ELSE CASE res.state = "S0" ->
                                  [value |-> 0, err |-> NilErr, evaluated |-> TRUE]
                             [] res.state = "S1" ->
                                  [value |-> 1, err |-> NilErr, evaluated |-> TRUE]
                             [] res.state = "S2" ->
                                  [value |-> 2, err |-> NilErr, evaluated |-> TRUE]
                             [] OTHER ->
                                  [value |-> 0,
                                   err |-> Errorf("unexpected final state %q",
                                                  res.state, None),
                                   evaluated |-> TRUE]

\* mod3.ModThree: the int and the error returned, and whether m.Eval was called
ModThree(binary) ==
    IF binary = <<>>
    THEN [value |-> 0, err |-> NilErr, evaluated |-> FALSE]
    ELSE LET bad == {n \in 1..Len(binary) : binary[n] # "0" /\ binary[n] # "1"}
         IN  IF bad # {}
             THEN LET n == CHOOSE i \in bad : \A j \in bad : i <= j
                  IN  [value |-> 0,
                       err |-> Errorf("invalid binary character '%c' at position %d",
                                      binary[n], ByteOffset(binary, n)),
                       evaluated |-> FALSE]
             ELSE LET got == getMachine
                  IN  IF got.err # NilErr
                      THEN [value |-> 0, err |-> got.err, evaluated |-> FALSE]
                      ELSE LET res == Eval(got.machine, Bytes(binary))
                           IN  IF res.err # NilErr
                               THEN [value |-> 0, err |-> res.err, evaluated |-> TRUE]
                               ELSE CASE res.state = "S0" ->
                                           [value |-> 0, err |-> NilErr, evaluated |-> TRUE]
                                      [] res.state = "S1" ->
                                           [value |-> 1, err |-> NilErr, evaluated |-> TRUE]
                                      [] res.state = "S2" ->
                                           [value |-> 2, err |-> NilErr, evaluated |-> TRUE]
                                      [] OTHER ->
                                           [value |-> 0,
                                            err |-> Errorf("unexpected final state %q",
                                                           res.state, None),
                                            evaluated |-> TRUE]

\* rem, err := mod3.ModThree(binary)
CallModThree(binary) ==
    /\ LET res == ModThree(binary)
       IN  last' = [op |-> "ModThree", binary |-> binary, value |-> res.value,
                    err |-> res.err, evaluated |-> res.evaluated]
    /\ UNCHANGED <<builder, machine, runner, consumed, nb, nr, shares, recording, calls>>

NextModThree == \E binary \in Mod3Strings : CallModThree(binary)

\* the calls of mod3.ModThree
SpecModThree == InitMod3 /\ [][NextModThree]_vars

\* the mutating calls on a Builder, with their history
SpecCalls == InitRecorded /\ [][NextCalls]_vars

\* the same runs with the Build calls
SpecCallsBuild == InitRecorded /\ [][NextBuilder]_vars

\* the options of the runs whose calls are reordered: the two that a
\* mutating call or a check of every state reads
OrderOptions ==
    {o \in RecordedOptions : ~o.requireAtLeastOneAccepting}

\* NewBuilder in a run that keeps the history of its calls, to reorder them
InitOrder ==
    \E opts \in OrderOptions :
        /\ builder = NewBuilder(opts)
        /\ machine = Nil
        /\ runner = [r \in Runners |-> Nil]
        /\ consumed = [r \in Runners |-> <<>>]
        /\ last = [op |-> "NewBuilder"]
        /\ nb = 0
        /\ nr = 0
        /\ shares = {}
        /\ recording = TRUE
        /\ calls = <<>>

\* the mutating calls on a Builder, with their history, under these options
SpecOrder == InitOrder /\ [][NextCalls]_vars

(***************************************************************************)
(* Vocabulary of the properties                                            *)
(***************************************************************************)
\* the step just taken is a Step(a) call on runner r
StepTaken(r, a) ==
    /\ runner[r] # Nil
    /\ nr' = nr + 1
    /\ last'.op = "Step" /\ last'.r = r /\ last'.sym = a

\* delta(s, a) is recorded in Machine m
Defined(m, s, a) == TransitionKey(s, a) \in DOMAIN m.transitions

\* the recorded target delta(s, a)
Delta(m, s, a) == m.transitions[TransitionKey(s, a)]

\* the states some path of recorded transitions leads to from the initial state
ReachableStates(b) ==
    {t \in StateValues :
        \E n \in 0..Cardinality(StateValues) :
            \E path \in [0..n -> StateValues] :
                /\ path[0] = b.initialState
                /\ path[n] = t
                /\ \A i \in 0..(n - 1) :
                      \E k \in DOMAIN b.transitions :
                          k.From = path[i] /\ b.transitions[k] = path[i + 1]}

\* one violated rule: the message reporting it and the pair it is about
Violation(format, a1, a2, item) ==
    [msg |-> newBuildError(format, a1, a2), item |-> item]

\* every rule of a well-formed automaton that Builder b violates; the policy
\* rules count when their option is set, the reachability rules when also the
\* initial state is set
Violations(b) ==
    LET T == DOMAIN b.transitions
        o == b.options
        no == <<None, None>>
    IN  {Violation("initial state must be set", None, None, no) :
            x \in {1} \ {IF b.initialSet THEN 1 ELSE 0}}
        \cup {Violation("at least one state is required", None, None, no) :
            x \in {1} \ {IF b.states # {} THEN 1 ELSE 0}}
        \cup {Violation("at least one input symbol is required", None, None, no) :
            x \in {1} \ {IF b.symbols # {} THEN 1 ELSE 0}}
        \cup {Violation("accepting state unknown %v", s, None, <<s, None>>) :
            s \in b.accepting \ b.states}
        \cup {Violation("transition from unknown state %v", k.From, None,
                        <<k.From, k.Symbol>>) :
            k \in {j \in T : j.From \notin b.states}}
        \cup {Violation("transition uses unknown symbol %v", k.Symbol, None,
                        <<k.From, k.Symbol>>) :
            k \in {j \in T : j.Symbol \notin b.symbols}}
        \cup {Violation("transition to unknown state %v", b.transitions[k], None,
                        <<k.From, k.Symbol>>) :
            k \in {j \in T : b.transitions[j] \notin b.states}}
        \cup {Violation("missing transition from %v on %v", p[1], p[2], p) :
            p \in {q \in b.states \X b.symbols :
                      o.requireTotalTransitions /\ TransitionKey(q[1], q[2]) \notin T}}
        \cup {Violation("at least one accepting state required", None, None, no) :
            x \in {1} \ {IF o.requireAtLeastOneAccepting /\ b.accepting = {}
                         THEN 0 ELSE 1}}
        \cup {Violation("unreachable state %v", s, None, <<s, None>>) :
            s \in {q \in b.states :
                      /\ o.errorOnUnreachableStates /\ b.initialSet
                      /\ q \notin ReachableStates(b)}}
        \cup {Violation("no accepting state reachable from initial", None, None, no) :
            x \in {1} \ {IF /\ o.errorWhenNoAcceptingReachable /\ b.initialSet
                            /\ b.accepting \cap ReachableStates(b) = {}
                         THEN 0 ELSE 1}}

\* the aggregate with one entry for each violation of vs
OneEntryEach(vs) ==
    [e \in {v.msg : v \in vs} |-> Cardinality({v \in vs : v.msg = e})]

\* the formats of the three checks a fresh Builder fails
FreshFormats ==
    {"initial state must be set", "at least one state is required",
     "at least one input symbol is required"}

\* the formats of the checks an option enables
PolicyFormats ==
    {"missing transition from %v on %v", "at least one accepting state required",
     "unreachable state %v", "no accepting state reachable from initial"}

\* a caller stepping Runner r over the symbols of w in order, stopping at the
\* first Step that fails: the Runner and the error it ends with
RECURSIVE StepThrough(_, _)
StepThrough(r, w) ==
    IF w = <<>> THEN [runner |-> r, err |-> NilErr]
    ELSE LET res == Step(r, Head(w))
         IN  IF res.err # NilErr THEN res ELSE StepThrough(res.runner, Tail(w))

\* the Runner after a Step call on each symbol of w in turn, the failed ones
\* included
RECURSIVE StepEach(_, _)
StepEach(r, w) ==
    IF w = <<>> THEN r ELSE StepEach(Step(r, Head(w)).runner, Tail(w))

\* the calls cs give no pair two different targets and name one initial state
SingleValued(cs) ==
    \A i, j \in 1..Len(cs) :
       /\ (cs[i].op = "On" /\ cs[j].op = "On"
             /\ cs[i].from = cs[j].from /\ cs[i].sym = cs[j].sym)
            => cs[i].to = cs[j].to
       /\ (cs[i].op = "SetInitial" /\ cs[j].op = "SetInitial")
            => cs[i].state = cs[j].state

\* the orderings of the calls cs
Reorderings(cs) ==
    {[i \in 1..Len(cs) |-> cs[p[i]]] : p \in Permutations(1..Len(cs))}

\* of the Step calls on the symbols of v in turn, from Runner r on, those on
\* another symbol than a all fail
RECURSIVE OthersFail(_, _, _)
OthersFail(r, v, a) ==
    \/ v = <<>>
    \/ LET res == Step(r, Head(v))
       IN  /\ Head(v) = a \/ res.err # NilErr
           /\ OthersFail(res.runner, Tail(v), a)

\* the inputs over the symbols of Builder b
InputsOver(b) == {w \in Inputs : \A i \in 1..Len(w) : w[i] \in b.symbols}

\* Builder b with the policy requireTotalTransitions
WithTotalPolicy(b) == [b EXCEPT !.options.requireTotalTransitions = TRUE]

\* Builder b with the policy errorOnUnreachableStates
WithUnreachablePolicy(b) == [b EXCEPT !.options.errorOnUnreachableStates = TRUE]

\* the Builders that the calls cs, made in each order on b, leave
Reordered(b, cs) == {Replay(b, o) : o \in Reorderings(cs)}

\* the recorded call number i is AddState(x, f)
IsAddState(i, x, f) ==
    calls[i].op = "AddState" /\ calls[i].state = x /\ calls[i].isAccepting = f

\* the numbers of the recorded calls that are an On for the pair k
OnCalls(k) ==
    {i \in 1..Len(calls) :
        calls[i].op = "On" /\ calls[i].from = k.From /\ calls[i].sym = k.Symbol}

\* the numbers of the recorded calls that are a SetInitial
SetInitialCalls == {i \in 1..Len(calls) : calls[i].op = "SetInitial"}

\* the largest and the smallest of a non-empty set of numbers
Latest(is) == CHOOSE i \in is : \A j \in is : j <= i
First(is) == CHOOSE i \in is : \A j \in is : i <= j

\* a Runner of Machine m that has reached state s
RunnerAt(m, s) == [Start(m) EXCEPT !.state = s]

\* no policy that a Builder without accepting states or total transitions fails
NoAcceptingOrTotalPolicy(o) ==
    /\ ~o.requireTotalTransitions
    /\ ~o.requireAtLeastOneAccepting
    /\ ~o.errorWhenNoAcceptingReachable

\* the entries of the error Build returned (none for a nil error)
Errors(err) == IF err = NilErr THEN EmptyBag ELSE err.errors

\* the Builder's data violate membership: F is not within Q, or a recorded
\* transition has its from or target outside Q or its symbol outside the alphabet
MembershipViolated(b) ==
    \/ ~(b.accepting \subseteq b.states)
    \/ \E k \in DOMAIN b.transitions :
          \/ k.From \notin b.states
          \/ k.Symbol \notin b.symbols
          \/ b.transitions[k] \notin b.states

\* the formats of the membership failures
MembershipFormats ==
    {"accepting state unknown %v", "transition from unknown state %v",
     "transition uses unknown symbol %v", "transition to unknown state %v"}

\* the pairs of Q x alphabet without a recorded transition
Missing(b) ==
    {p \in b.states \X b.symbols : TransitionKey(p[1], p[2]) \notin DOMAIN b.transitions}

\* the states reachable from the initial state of b by zero or more recorded
\* transitions: the least set that holds the initial state and, with a
\* state, the targets of its transitions
ReachableFromInitial(b) ==
    LET U == b.states \cup {b.initialState}
                 \cup {b.transitions[k] : k \in DOMAIN b.transitions}
        Closed(R) == /\ b.initialState \in R
                     /\ \A k \in DOMAIN b.transitions :
                           k.From \in R => b.transitions[k] \in R
    IN  CHOOSE R \in SUBSET U :
            Closed(R) /\ \A R2 \in SUBSET U : Closed(R2) => R \subseteq R2

\* the entries of the error err that have the format
EntriesOf(err, format) == {e \in BagToSet(Errors(err)) : e.format = format}

\* the formats of the two reachability failures
ReachabilityFormats ==
    {"unreachable state %v", "no accepting state reachable from initial"}

\* Builder b with the two reachability policies off
WithoutReachabilityPolicies(b) ==
    [b EXCEPT !.options.errorOnUnreachableStates = FALSE,
              !.options.errorWhenNoAcceptingReachable = FALSE]

\* Builder b with the policy requireAtLeastOneAccepting off
WithoutAcceptingPolicy(b) == [b EXCEPT !.options.requireAtLeastOneAccepting = FALSE]

\* the labels of slice sl
Labels(sl) == {sl[i] : i \in 1..Len(sl)}

\* no label occurs twice in slice sl
NoRepeat(sl) == \A i \in 1..Len(sl), j \in 1..Len(sl) : sl[i] = sl[j] => i = j

\* the value of a sequence of binary digits read as a number, most
\* significant digit first
RECURSIVE BinaryValue(_)
BinaryValue(w) ==
    IF w = <<>> THEN 0
    ELSE 2 * BinaryValue(SubSeq(w, 1, Len(w) - 1))
            + (IF w[Len(w)] = "1" THEN 1 ELSE 0)

\* the state that stands for remainder r
RemainderState(r) == CASE r = 0 -> "S0" [] r = 1 -> "S1" [] r = 2 -> "S2"

\* every symbol of w is a binary digit
IsBinary(w) == \A i \in 1..Len(w) : w[i] \in {"0", "1"}

\* all but the last of the recorded calls
Earlier == SubSeq(calls, 1, Len(calls) - 1)

\* what the callers of Machine m can observe of it: the results of its methods
Observations(m) ==
    [Accepting |-> [x \in StateValues |-> Accepting(m, x)],
     GetTransition |-> [k \in StateValues \X SymbolLabels |-> GetTransition(m, k[1], k[2])],
     HasTransition |-> [k \in StateValues \X SymbolLabels |-> HasTransition(m, k[1], k[2])],
     InitialState |-> InitialState(m),
     States |-> States(m),
     Eval |-> [w \in Inputs |-> Eval(m, w)]]

\* the last call was a Step of r that failed
FailedStep(r) == last.op = "Step" /\ last.r = r /\ last.err # NilErr

(***************************************************************************)
(* Properties                                                              *)
(***************************************************************************)
\* C1: a Step that fails (no transition for the current state and the symbol)
\* leaves the Runner exactly as it was, and the Runner stays usable: from the
\* state it is left in, a Step on any symbol that has a transition succeeds
\* and moves to the recorded target.
C1_FailedStepLeavesRunner ==
    [][\A r \in Runners, a \in SymbolLabels :
          (StepTaken(r, a) /\ last'.err # NilErr) =>
             /\ runner'[r] = runner[r]
             /\ \A c \in SymbolLabels :
                   Defined(runner[r].machine, runner[r].state, c) =>
                      /\ Step(runner'[r], c).err = NilErr
                      /\ Step(runner'[r], c).runner.state
                            = Delta(runner[r].machine, runner[r].state, c)]_vars

\* C1 witness: a Step has just failed on a Runner whose state has a transition
\* on another symbol
C1_Witness ==
    \E r \in Runners :
        /\ FailedStep(r)
        /\ \E c \in SymbolLabels : Defined(runner[r].machine, runner[r].state, c)

\* C2: Step(a) in state s returns nil and moves to t when the Machine records
\* delta(s, a) = t; otherwise it returns TransitionError{From: s, Symbol: a}
\* and does not move, whether s has no transition at all or only on other symbols.
C2_StepFollowsDelta ==
    [][\A r \in Runners, a \in SymbolLabels :
          StepTaken(r, a) =>
             LET m == runner[r].machine
                 s == runner[r].state
             IN  IF Defined(m, s, a)
                 THEN /\ last'.err = NilErr
                      /\ runner'[r] = [runner[r] EXCEPT !.state = Delta(m, s, a)]
                 ELSE /\ last'.err = TransitionError(s, a)
                      /\ runner'[r].state = s]_vars

\* C2 witness: a Step has failed in a state that has transitions, but only on
\* other symbols
C2_Witness ==
    \E r \in Runners :
        /\ FailedStep(r)
        /\ last.err = TransitionError(runner[r].state, last.sym)
        /\ \E c \in SymbolLabels \ {last.sym} :
              Defined(runner[r].machine, runner[r].state, c)

\* C3: Eval(input) is Start followed by one Step per symbol.  For a Runner that
\* has stepped over w since Start, Eval(w) succeeds with the Runner's state;
\* when its next Step, on a, fails, Eval of w, a and any further symbols fails
\* with that Step's TransitionError: From is the state reached by w, Symbol is
\* a, and what follows a is not consumed.
C3_EvalIsStartThenSteps ==
    \A r \in Runners :
        runner[r] # Nil =>
            /\ Eval(runner[r].machine, consumed[r])
                  = [state |-> runner[r].state, err |-> NilErr]
            /\ FailedStep(r) =>
                  \A rest \in Inputs :
                      LET res == Eval(runner[r].machine,
                                      consumed[r] \o <<last.sym>> \o rest)
                      IN  /\ res.err = last.err
                          /\ res.err = TransitionError(runner[r].state, last.sym)

\* C3 witness: a Runner has stepped over a symbol and its next Step has failed
C3_Witness ==
    \E r \in Runners : FailedStep(r) /\ Len(consumed[r]) >= 1

\* C4: for a Runner that has stepped over s, and any t: Eval(s ++ t) and the
\* Runner stepped on through t agree on success, on the final state when they
\* succeed, and on the error when they fail.
C4_EvalOfConcatenation ==
    \A r \in Runners :
        runner[r] # Nil =>
            \A t \in Inputs :
                LET whole == Eval(runner[r].machine, consumed[r] \o t)
                    split == StepThrough(runner[r], t)
                IN  /\ whole.err = split.err
                    /\ whole.err = NilErr => whole.state = split.runner.state

\* C4 witness: a Runner has stepped over a non-empty s and can step on over a
\* non-empty t
C4_Witness ==
    \E r \in Runners :
        /\ runner[r] # Nil
        /\ Len(consumed[r]) >= 1
        /\ \E t \in Inputs : Len(t) >= 1 /\ StepThrough(runner[r], t).err = NilErr

\* C5: Eval of the empty sequence returns InitialState() and a nil error,
\* whatever the transition relation is.
C5_EvalEmpty ==
    (last.op = "Eval" /\ last.input = <<>>) =>
        /\ last.state = InitialState(machine)
        /\ last.err = NilErr

\* C5 witness: Eval of the empty sequence on a Machine without transitions
C5_Witness ==
    /\ last.op = "Eval" /\ last.input = <<>>
    /\ machine.transitions = EmptyMap

\* C6: when Eval fails it returns the zero value of the state type together
\* with a non-nil error.
C6_EvalFailureReturnsZero ==
    last.op = "Eval" =>
        ((\E i \in 1..Len(last.input) :
              StepThrough(Start(machine), SubSeq(last.input, 1, i)).err # NilErr)
           => (last.state = Zero /\ last.err # NilErr))

\* C6 witness: Eval has failed after leaving the initial state
C6_Witness ==
    /\ last.op = "Eval" /\ last.err # NilErr
    /\ last.err.From # InitialState(machine)

\* C7: EvalAccepting fails exactly when Eval fails, and then returns false and
\* Eval's error; otherwise it returns whether Eval's state is accepting, and nil.
C7_EvalAccepting ==
    last.op = "EvalAccepting" =>
        LET res == Eval(machine, last.input)
        IN  IF res.err # NilErr
            THEN last.accepting = FALSE /\ last.err = res.err
            ELSE last.err = NilErr /\ last.accepting = Accepting(machine, res.state)

\* C7 witness: EvalAccepting of two symbols has failed at an accepting state
C7_Witness ==
    /\ last.op = "EvalAccepting" /\ last.err # NilErr
    /\ Len(last.input) >= 2
    /\ Accepting(machine, last.err.From)

\* C8: Accepting(x) on a built Machine is true iff x was in the Builder's
\* accepting set when Build ran; it is false for a label never registered and
\* for a state registered without the flag, such as an initial state
\* registered by SetInitial alone.
C8_AcceptingIsF ==
    (last.op = "Build" /\ last.err = NilErr) =>
        \A x \in StateValues :
            /\ Accepting(last.machine, x) <=> x \in builder.accepting
            /\ x \notin builder.states => ~Accepting(last.machine, x)

\* C8 witness: a Machine built with an accepting state and an initial state
\* that is not accepting
C8_Witness ==
    /\ last.op = "Build" /\ last.err = NilErr
    /\ builder.accepting # {}
    /\ builder.initialState \notin builder.accepting

\* C9: Build collects every failure: the aggregate it returns has one entry
\* for each violated unconditional rule and each violated rule of an enabled
\* policy, so no failure hides another; Build returns a Machine and a nil
\* error iff nothing is violated.  A fresh Builder without options yields the
\* three entries missing initial state, no state, no symbol.
C9_BuildCollectsAll ==
    last.op = "Build" =>
        LET V == Violations(builder)
        IN  /\ (last.err = NilErr) <=> (V = {})
            /\ (last.machine # Nil) <=> (V = {})
            /\ V # {} =>
                  /\ last.err.type = "ValidationErrors"
                  /\ last.err.errors = OneEntryEach(V)
            /\ builder = NewBuilder(DefaultOptions) =>
                  /\ BagCardinality(last.err.errors) = 3
                  /\ {e.format : e \in BagToSet(last.err.errors)} = FreshFormats

\* C9 witness: a Build has reported, in one aggregate, a missing symbol, a
\* transition outside the registered states or symbols, and a policy failure
C9_Witness ==
    /\ last.op = "Build" /\ last.err # NilErr
    /\ \E e \in BagToSet(last.err.errors) :
          e.format = "at least one input symbol is required"
    /\ \E e \in BagToSet(last.err.errors) :
          e.format = "transition uses unknown symbol %v"
    /\ \E e \in BagToSet(last.err.errors) : e.format \in PolicyFormats

\* C10: Build does not modify the Builder, whether it fails or succeeds, and
\* a second Build on the unmodified Builder returns the same verdict: the
\* same aggregate, or a Machine with the same q0, F and delta.
C10_BuildLeavesBuilder ==
    [][last'.op = "Build" =>
          /\ builder' = builder
          /\ Build(builder').builder = builder'
          /\ Build(builder').err = last'.err
          /\ Build(builder').machine = last'.machine]_vars

\* C10 witness: a Build has succeeded on a Builder that holds transitions and
\* accepting states
C10_Witness ==
    /\ last.op = "Build" /\ last.err = NilErr
    /\ builder.transitions # EmptyMap
    /\ builder.accepting # {}

\* C11: a Machine is isolated from its Builder: whatever mutating call is made
\* on the Builder after a successful Build (AddState, SetInitial, AddSymbol,
\* On), the Machine that Build returned gives the same results of Accepting,
\* GetTransition, HasTransition, InitialState, States and Eval as before.
C11_MachineIsolated ==
    [][(machine # Nil /\ nb' # nb) =>
          /\ machine' # Nil
          /\ Observations(machine') = Observations(machine)]_vars

\* C11 witness: after a successful Build of a Machine with transitions, an On
\* has added or overwritten a transition of the Builder, which the Machine
\* does not show
C11_Witness ==
    /\ machine # Nil
    /\ last.op = "On"
    /\ machine.transitions # EmptyMap
    /\ builder.transitions # machine.transitions

C13_Idempotent ==
    (/\ Len(calls) >= 2
     /\ calls[Len(calls)] = calls[Len(calls) - 1]
     /\ calls[Len(calls)].op \in {"AddState", "AddSymbol"})
        => builder = Replay(NewBuilder(builder.options), Earlier)

\* C13 witness: AddState(x, true) called twice in a row on a Builder where x
\* was not accepting before
C13_Witness ==
    /\ Len(calls) >= 2
    /\ calls[Len(calls)] = calls[Len(calls) - 1]
    /\ \E x \in StateLabels :
          /\ IsAddState(Len(calls), x, TRUE)
          /\ \A i \in 1..(Len(calls) - 2) : ~IsAddState(i, x, TRUE)

\* C14: SetInitial(x) registers x and makes it the initial state; of several
\* SetInitial calls the last wins: the Builder's initial state, the
\* InitialState() of a Machine built then and the state of a Runner it starts
\* are the argument of the most recent SetInitial.
C14_LastSetInitialWins ==
    SetInitialCalls # {} =>
        LET x == calls[Latest(SetInitialCalls)].state
            res == Build(builder)
        IN  /\ builder.initialSet /\ builder.initialState = x
            /\ \A i \in SetInitialCalls : calls[i].state \in builder.states
            /\ res.err = NilErr =>
                  /\ InitialState(res.machine) = x
                  /\ State(Start(res.machine)) = x

\* C14 witness: SetInitial was called with two different labels and Build
\* succeeds on the Builder
C14_Witness ==
    /\ \E i \in SetInitialCalls : calls[i].state # builder.initialState
    /\ Build(builder).err = NilErr

\* C15: On(from, sym, to) registers from and to as states and sym as a
\* symbol, and records delta(from, sym) = to when it returns; so after
\* SetInitial(s) and On(s, a, t) alone every unconditional check of Build
\* passes, and on a Builder without a policy on accepting states or total
\* transitions Build succeeds and a Step on a from the start reaches t.
C15_OnRegisters ==
    /\ \A i \in 1..Len(calls) :
          calls[i].op = "On" =>
             /\ {calls[i].from, calls[i].to} \subseteq builder.states
             /\ calls[i].sym \in builder.symbols
    /\ (last.op = "On" /\ ~last.panicked) =>
          LET c == calls[Len(calls)]
          IN  /\ TransitionKey(c.from, c.sym) \in DOMAIN builder.transitions
              /\ builder.transitions[TransitionKey(c.from, c.sym)] = c.to
    /\ \A s \in StateLabels, a \in SymbolLabels, t \in StateLabels :
          calls = <<[op |-> "SetInitial", state |-> s],
                    [op |-> "On", from |-> s, sym |-> a, to |-> t]>> =>
             /\ IsEmpty(checkAlways(builder))
             /\ NoAcceptingOrTotalPolicy(builder.options) =>
                   /\ Build(builder).err = NilErr
                   /\ Step(Start(Build(builder).machine), a)
                         = [runner |-> RunnerAt(Build(builder).machine, t),
                            err |-> NilErr]

\* C15 witness: only SetInitial(s) and On(s, a, t) with another state t were
\* called, on a Builder without options, and Build succeeds
C15_Witness ==
    /\ Len(calls) = 2
    /\ calls[1].op = "SetInitial" /\ calls[2].op = "On"
    /\ calls[2].from = calls[1].state /\ calls[2].to # calls[1].state
    /\ builder.options = DefaultOptions
    /\ Build(builder).err = NilErr
    /\ Step(Start(Build(builder).machine), calls[2].sym).runner.state = calls[2].to

\* C16: without preventOverwriteTransitions an On for a pair that has a
\* transition overwrites it and does not panic: the recorded target of a pair
\* is the target of the most recent On for it (and a pair without an On has
\* none); a Builder without options holding an initial state and such
\* transitions builds, and the Machine of any successful Build steps from the
\* pair's state on its symbol to that last target.
C16_LastOnWins ==
    ~builder.options.preventOverwriteTransitions =>
        LET res == Build(builder)
        IN  /\ last.op = "On" => ~last.panicked
            /\ \A k \in Keys :
                  IF OnCalls(k) = {}
                  THEN k \notin DOMAIN builder.transitions
                  ELSE /\ k \in DOMAIN builder.transitions
                       /\ builder.transitions[k] = calls[Latest(OnCalls(k))].to
                       /\ res.err = NilErr =>
                             Step(RunnerAt(res.machine, k.From), k.Symbol)
                                = [runner |-> RunnerAt(res.machine,
                                                       calls[Latest(OnCalls(k))].to),
                                   err |-> NilErr]
            /\ (/\ builder.options = DefaultOptions
                /\ builder.initialSet
                /\ \E k \in Keys : OnCalls(k) # {})
                  => res.err = NilErr

\* C16 witness: a pair was given one target and then another, on a Builder
\* without options, and the Machine built steps from the start to the second
C16_Witness ==
    /\ builder.options = DefaultOptions
    /\ Build(builder).err = NilErr
    /\ \E k \in Keys :
          /\ k.From = builder.initialState
          /\ \E i \in OnCalls(k) : calls[i].to # calls[Latest(OnCalls(k))].to
          /\ Step(Start(Build(builder).machine), k.Symbol).runner.state
                = calls[Latest(OnCalls(k))].to

\* C17: with preventOverwriteTransitions an On panics exactly when its pair
\* (from, sym) already has a transition, whatever its target is; so the
\* recorded target of a pair is never changed: it is the target of the first
\* On for the pair.
C17_DuplicateOnPanics ==
    builder.options.preventOverwriteTransitions =>
        /\ last.op = "On" =>
              LET c == calls[Len(calls)]
              IN  last.panicked <=>
                     \E i \in OnCalls(TransitionKey(c.from, c.sym)) : i < Len(calls)
        /\ \A k \in Keys :
              IF OnCalls(k) = {}
              THEN k \notin DOMAIN builder.transitions
              ELSE /\ k \in DOMAIN builder.transitions
                   /\ builder.transitions[k] = calls[First(OnCalls(k))].to

\* C17 witness: with the policy, an On has panicked on a pair whose recorded
\* target is the very target it was called with, after an On for another pair
\* of the same state had returned
C17_Witness ==
    /\ builder.options.preventOverwriteTransitions
    /\ last.op = "On" /\ last.panicked
    /\ LET c == calls[Len(calls)]
       IN  /\ builder.transitions[TransitionKey(c.from, c.sym)] = c.to
           /\ \E a \in SymbolLabels \ {c.sym} :
                 OnCalls(TransitionKey(c.from, a)) # {}

\* C18: Build fails whenever the Builder's data violate membership (an
\* accepting label outside Q; a recorded transition whose from or target is
\* outside Q or whose symbol is outside the alphabet), whatever the options:
\* it returns a validation error naming a membership failure, and no Machine.
C18_MembershipEnforced ==
    (last.op = "Build" /\ MembershipViolated(builder)) =>
        /\ last.machine = Nil
        /\ last.err # NilErr
        /\ last.err.type = "ValidationErrors"
        /\ \E e \in BagToSet(last.err.errors) : e.format \in MembershipFormats

\* C18 witness: a Build has failed for nothing but a transition whose target
\* is not a registered state
C18_Witness ==
    /\ last.op = "Build" /\ last.err # NilErr
    /\ {e.format : e \in BagToSet(last.err.errors)} = {"transition to unknown state %v"}

\* C19: whatever the options and the rest of the Builder, Build fails (an
\* error, no Machine) when SetInitial was never called, when Q is empty, or
\* when the alphabet is empty.
C19_InitialStatesSymbolsRequired ==
    (/\ last.op = "Build"
     /\ ~builder.initialSet \/ builder.states = {} \/ builder.symbols = {})
        => last.machine = Nil /\ last.err # NilErr

\* C19 witness: a Build has failed on a Builder with states, but no initial
\* state and no symbol
C19_Witness ==
    /\ last.op = "Build" /\ last.machine = Nil
    /\ builder.states # {} /\ ~builder.initialSet /\ builder.symbols = {}

\* C20: with requireTotalTransitions, the error of Build has exactly one
\* "missing transition" entry for each pair of Q x alphabet without a recorded
\* transition, and none when every pair has one; without the policy it has
\* no such entry.
C20_TotalTransitions ==
    last.op = "Build" =>
        LET errs == Errors(last.err)
            total == {e \in BagToSet(errs) : e.format = "missing transition from %v on %v"}
        IN  IF builder.options.requireTotalTransitions
            THEN /\ total = {newBuildError("missing transition from %v on %v", p[1], p[2]) :
                                p \in Missing(builder)}
                 /\ \A e \in total : CopiesIn(e, errs) = 1
            ELSE total = {}

\* C20 witness: with the policy, Build has reported the pair of a state that
\* is unreachable and has no transition at all with a symbol that no
\* transition uses
C20_Witness ==
    /\ last.op = "Build" /\ builder.options.requireTotalTransitions
    /\ builder.initialSet
    /\ \E p \in Missing(builder) :
          /\ p[1] \notin ReachableStates(builder)
          /\ \A k \in DOMAIN builder.transitions : k.From # p[1] /\ k.Symbol # p[2]
          /\ BagIn(newBuildError("missing transition from %v on %v", p[1], p[2]),
                   Errors(last.err))

\* C21: with errorOnUnreachableStates and q0 set, the "unreachable state"
\* entries of Build are exactly the members of Q not reachable from q0 by
\* zero or more recorded transitions, each once, and never q0; without the
\* policy there is no such entry.  The reachability entries are all that the
\* policies add: the other entries are those of the same Builder without the
\* two policies, which therefore builds when they are the only ones.
C21_UnreachableReported ==
    last.op = "Build" =>
        LET un == EntriesOf(last.err, "unreachable state %v")
            plain == Build(WithoutReachabilityPolicies(builder))
        IN  /\ IF builder.options.errorOnUnreachableStates /\ builder.initialSet
               THEN /\ un = {newBuildError("unreachable state %v", s, None) :
                               s \in builder.states \ ReachableFromInitial(builder)}
                    /\ \A e \in un : CopiesIn(e, Errors(last.err)) = 1
                    /\ newBuildError("unreachable state %v", builder.initialState, None)
                          \notin un
               ELSE un = {}
            /\ \A e \in BagToSet(Errors(last.err)) \cup BagToSet(Errors(plain.err)) :
                  e.format \notin ReachabilityFormats =>
                     CopiesIn(e, Errors(last.err)) = CopiesIn(e, Errors(plain.err))
            /\ \A e \in BagToSet(Errors(plain.err)) : e.format \notin ReachabilityFormats

\* C21 witness: with the policy, Build has failed for nothing but two states
\* that no path from q0 leads to, one of them the target of a transition out
\* of the other
C21_Witness ==
    /\ last.op = "Build" /\ last.err # NilErr
    /\ builder.options.errorOnUnreachableStates /\ builder.initialSet
    /\ {e.format : e \in BagToSet(last.err.errors)} = {"unreachable state %v"}
    /\ BagCardinality(last.err.errors) = 2
    /\ Build(WithoutReachabilityPolicies(builder)).err = NilErr
    /\ \E k \in DOMAIN builder.transitions :
          /\ k.From \notin ReachableFromInitial(builder)
          /\ builder.transitions[k] # k.From

\* C22: with errorWhenNoAcceptingReachable and q0 set, Build reports the
\* failure "no accepting state reachable" exactly once when no member of F is
\* reachable from q0, however many accepting states there are, and not at all
\* when some member of F is reachable; without the policy it never reports it.
C22_AcceptingReachable ==
    last.op = "Build" =>
        LET e == newBuildError("no accepting state reachable from initial", None, None)
        IN  /\ EntriesOf(last.err, "no accepting state reachable from initial") \subseteq {e}
            /\ CopiesIn(e, Errors(last.err)) =
                  IF /\ builder.options.errorWhenNoAcceptingReachable
                     /\ builder.initialSet
                     /\ builder.accepting \cap ReachableFromInitial(builder) = {}
                  THEN 1 ELSE 0

\* C22 witness: with the policy, Build has reported the one failure for a
\* Builder with two accepting states, neither reachable from q0
C22_Witness ==
    /\ last.op = "Build"
    /\ builder.options.errorWhenNoAcceptingReachable /\ builder.initialSet
    /\ Cardinality(builder.accepting \ ReachableFromInitial(builder)) = 2
    /\ CopiesIn(newBuildError("no accepting state reachable from initial", None, None),
                Errors(last.err)) = 1

\* C23: with requireAtLeastOneAccepting, Build reports the failure "at least
\* one accepting state required" (once) iff F is empty, so when every other
\* check passes Build fails iff F is empty; without the policy it never
\* reports it, and a Builder with no accepting state builds.
C23_NonemptyAccepting ==
    last.op = "Build" =>
        LET e == newBuildError("at least one accepting state required", None, None)
            plain == Build(WithoutAcceptingPolicy(builder))
        IN  /\ CopiesIn(e, Errors(last.err)) =
                  IF builder.options.requireAtLeastOneAccepting /\ builder.accepting = {}
                  THEN 1 ELSE 0
            /\ CopiesIn(e, Errors(plain.err)) = 0
            /\ plain.err = NilErr =>
                  IF builder.options.requireAtLeastOneAccepting
                  THEN (last.err # NilErr) <=> (builder.accepting = {})
                  ELSE last.err = NilErr

\* C23 witness: with the policy, Build has failed for nothing but the empty
\* F, on a Builder that builds without the policy
C23_Witness ==
    /\ last.op = "Build" /\ last.err # NilErr
    /\ builder.options.requireAtLeastOneAccepting /\ builder.accepting = {}
    /\ BagCardinality(last.err.errors) = 1
    /\ Build(WithoutAcceptingPolicy(builder)).err = NilErr

\* C24 (as claimed; the code violates it): every slice States() can return on
\* a successfully built Machine repeats no label and holds exactly the labels
\* registered in the Builder at Build time.
C24_StatesIsQ ==
    (last.op = "Build" /\ last.err = NilErr) =>
        \A sl \in States(last.machine) :
            NoRepeat(sl) /\ Labels(sl) = builder.states

\* C25: on a successfully built Machine, GetTransition(s, a) returns the
\* target the Builder recorded for (s, a) and true, or the zero value and
\* false when it recorded none; HasTransition(s, a) is true iff GetTransition
\* reports found, iff Step(a) of a Runner in state s succeeds.
C25_PointLookups ==
    (last.op = "Build" /\ last.err = NilErr) =>
        \A s \in StateValues, a \in SymbolLabels :
            LET got == GetTransition(last.machine, s, a)
                k == TransitionKey(s, a)
            IN  /\ got = IF k \in DOMAIN builder.transitions
                         THEN [to |-> builder.transitions[k], ok |-> TRUE]
                         ELSE [to |-> Zero, ok |-> FALSE]
                /\ HasTransition(last.machine, s, a) <=> got.ok
                /\ got.ok <=> Step(RunnerAt(last.machine, s), a).err = NilErr
                /\ got.ok => Step(RunnerAt(last.machine, s), a).runner.state = got.to

\* C25 witness: a Machine built with a state that has a transition on one
\* symbol and none on the other
C25_Witness ==
    /\ last.op = "Build" /\ last.err = NilErr
    /\ \E s \in StateLabels, a \in SymbolLabels, c \in SymbolLabels :
          /\ HasTransition(last.machine, s, a)
          /\ ~HasTransition(last.machine, s, c)

\* C26: the three-state remainder automaton builds under the policies
\* reject-duplicates, all-reachable and accepting-reachable; Eval of a string
\* of binary digits returns the state S_r, r the value of the string (most
\* significant digit first) modulo 3, so "1110" gives S2, "1111" S0, "1101"
\* S1 and "" S0; Eval of an input with another symbol fails with a
\* TransitionError.
C26_RemainderAutomaton ==
    /\ last.op = "Build" => last.err = NilErr /\ last.machine # Nil
    /\ last.op = "Eval" =>
          /\ IF IsBinary(last.input)
             THEN /\ last.err = NilErr
                  /\ last.state = RemainderState(BinaryValue(last.input) % 3)
             ELSE LET i == First({j \in 1..Len(last.input) : last.input[j] = "2"})
                      r == BinaryValue(SubSeq(last.input, 1, i - 1)) % 3
                  IN  /\ last.err = TransitionError(RemainderState(r), "2")
                      /\ last.state = Zero
          /\ last.input = <<"1", "1", "1", "0">> => last.state = "S2"
          /\ last.input = <<"1", "1", "1", "1">> => last.state = "S0"
          /\ last.input = <<"1", "1", "0", "1">> => last.state = "S1"
          /\ last.input = <<>> => last.state = "S0"

\* C26 witness: Eval of "1110" has returned S2
C26_Witness ==
    /\ last.op = "Eval"
    /\ last.input = <<"1", "1", "1", "0">>
    /\ last.state = "S2" /\ last.err = NilErr

C28_RunnerStaysInQ ==
    (last.op = "Build" /\ last.err = NilErr) =>
       /\ \A k \in DOMAIN last.machine.transitions :
             last.machine.transitions[k] \in builder.states
       /\ \A w \in Inputs :
             LET r == StepEach(Start(last.machine), w)
             IN  /\ State(r) \in builder.states
                 /\ \A a \in SymbolLabels :
                       LET res == Step(r, a)
                       IN  \/ /\ res.err = NilErr
                              /\ Defined(last.machine, State(r), a)
                              /\ State(res.runner) \in builder.states
                           \/ /\ res.err = TransitionError(State(r), a)
                              /\ res.err.From \in builder.states
                              /\ ~Defined(last.machine, State(r), a)
                              /\ res.runner = r

\* C28 witness: a Machine was built on which a Step fails and a later Step of
\* the same Runner moves it to another state
C28_Witness ==
    /\ last.op = "Build" /\ last.err = NilErr
    /\ \E w \in Inputs :
          /\ Len(w) = 2
          /\ Step(Start(last.machine), w[1]).err # NilErr
          /\ Step(StepEach(Start(last.machine), <<w[1]>>), w[2]).err = NilErr
          /\ State(StepEach(Start(last.machine), w)) # InitialState(last.machine)

\* C29: when the initial state was never set, Build does no reachability
\* analysis: whatever the two reachability policies, its error has the entry
\* "initial state must be set" (once), no "unreachable state" entry and no
\* "no accepting state reachable" entry, and is the error of the same Builder
\* with both policies off.
C29_NoReachabilityWithoutInitial ==
    (last.op = "Build" /\ ~builder.initialSet) =>
       /\ last.err # NilErr
       /\ CopiesIn(newBuildError("initial state must be set", None, None),
                   Errors(last.err)) = 1
       /\ \A format \in ReachabilityFormats : EntriesOf(last.err, format) = {}
       /\ last.err = Build(WithoutReachabilityPolicies(builder)).err

\* C29 witness: Build of a Builder with both reachability policies, states,
\* an accepting state and a transition, but no initial state
C29_Witness ==
    /\ last.op = "Build" /\ ~builder.initialSet
    /\ builder.options.errorOnUnreachableStates
    /\ builder.options.errorWhenNoAcceptingReachable
    /\ builder.accepting # {}
    /\ DOMAIN builder.transitions # {}
    /\ Cardinality(builder.states) >= 2

\* C30: the Builder's data only grow.  No call (AddState, SetInitial,
\* AddSymbol, On, Build) takes a state, a symbol, an accepting state or a
\* pair with a transition away, unsets the initial state or changes an
\* option; an initial state that was set changes only by SetInitial, to its
\* argument, and the target of a pair changes only by an On for that pair
\* that does not panic, to its argument.
C30_BuilderOnlyGrows ==
    [][/\ builder.states \subseteq builder'.states
       /\ builder.symbols \subseteq builder'.symbols
       /\ builder.accepting \subseteq builder'.accepting
       /\ DOMAIN builder.transitions \subseteq DOMAIN builder'.transitions
       /\ builder'.options = builder.options
       /\ builder.initialSet => builder'.initialSet
       /\ (builder.initialSet /\ builder'.initialState # builder.initialState) =>
             /\ last'.op = "SetInitial"
             /\ calls' = Append(calls, [op |-> "SetInitial",
                                        state |-> builder'.initialState])
       /\ \A k \in DOMAIN builder.transitions :
             builder'.transitions[k] # builder.transitions[k] =>
                /\ last'.op = "On" /\ ~last'.panicked
                /\ calls' = Append(calls, [op |-> "On", from |-> k.From,
                                           sym |-> k.Symbol,
                                           to |-> builder'.transitions[k]])
       /\ last'.op = "Build" => builder' = builder]_vars

\* C30 witness: after SetInitial and two On calls for one pair with different
\* targets, the later target is recorded, the earlier one is still a state,
\* and Build succeeds
C30_Witness ==
    /\ last.op = "Build" /\ last.err = NilErr
    /\ Len(calls) = 3
    /\ calls[1].op = "SetInitial" /\ calls[2].op = "On" /\ calls[3].op = "On"
    /\ calls[2].from = calls[3].from /\ calls[2].sym = calls[3].sym
    /\ calls[2].to # calls[3].to
    /\ builder.transitions[TransitionKey(calls[3].from, calls[3].sym)] = calls[3].to
    /\ calls[2].to \in builder.states

\* C31: the Builder's calls are order-independent.  When the calls made give
\* no (from, symbol) pair two different targets and name a single initial
\* state, the same calls made in any other order on a new Builder with the
\* same options leave an equal Builder, and Build returns the same outcome on
\* both: the same failures, or Machines with the same q0, F and delta.
C31_OrderIndependent ==
    SingleValued(calls) =>
       LET here == Build(builder)
           left == Reordered(NewBuilder(builder.options), calls)
       IN  /\ left = {builder}
           /\ \A b \in left :
                 LET res == Build(b)
                 IN  /\ Errors(res.err) = Errors(here.err)
                     /\ (res.err = NilErr) = (here.err = NilErr)
                     /\ res.err = NilErr =>
                           /\ res.machine.initialState = here.machine.initialState
                           /\ res.machine.accepting = here.machine.accepting
                           /\ res.machine.transitions = here.machine.transitions

\* C31 witness: an On, an AddState of another accepting state and a
\* SetInitial were made in this order, and the Builder builds
C31_Witness ==
    /\ Len(calls) = 3 /\ SingleValued(calls)
    /\ calls[1].op = "On"
    /\ calls[2].op = "AddState" /\ calls[2].isAccepting
    /\ calls[2].state \notin {calls[1].from, calls[1].to}
    /\ calls[3].op = "SetInitial"
    /\ Build(builder).err = NilErr

\* C32: a Runner gets stuck only where delta is partial.  On the Machine of a
\* successful Build with requireTotalTransitions, Eval of every input over
\* the Builder's symbols returns no error and Step succeeds on every symbol
\* of the alphabet in the state reached.  On any Machine, a Step(a) fails
\* only on a pair without transition, and after it every further Step(a)
\* fails as long as no Step on another symbol has succeeded.
C32_StuckOnlyOnPartial ==
    /\ (last.op = "Build" /\ last.err = NilErr
          /\ builder.options.requireTotalTransitions) =>
          \A w \in InputsOver(builder) :
             LET res == Eval(last.machine, w)
             IN  /\ res.err = NilErr
                 /\ \A a \in builder.symbols :
                       Step(RunnerAt(last.machine, res.state), a).err = NilErr
    /\ FailedStep("r1") =>
          /\ ~Defined(runner["r1"].machine, State(runner["r1"]), last.sym)
          /\ \A v \in Inputs :
                OthersFail(runner["r1"], v, last.sym) =>
                   Step(StepEach(runner["r1"], v), last.sym).err # NilErr

\* C32 witness: a Runner that has moved fails a Step in a state where another
\* symbol has a transition
C32_Witness ==
    /\ FailedStep("r1")
    /\ consumed["r1"] # <<>>
    /\ \E a \in SymbolLabels \ {last.sym} :
          Defined(runner["r1"].machine, State(runner["r1"]), a)

\* C33: after any calls of AddState, AddSymbol, SetInitial, On (returning or
\* panicking) and Build, F is within Q, the initial state once set is in Q,
\* and every recorded transition has its from and its target in Q and its
\* symbol in the alphabet; so no Build reports an unknown accepting state or
\* an unknown state or symbol of a transition, and a Build that reports
\* "at least one state is required" reports "initial state must be set" too.
C33_MembershipKept ==
    /\ builder.accepting \subseteq builder.states
    /\ builder.initialSet => builder.initialState \in builder.states
    /\ \A k \in DOMAIN builder.transitions :
          /\ k.From \in builder.states
          /\ k.Symbol \in builder.symbols
          /\ builder.transitions[k] \in builder.states
    /\ ~MembershipViolated(builder)
    /\ last.op = "Build" =>
          /\ \A format \in MembershipFormats : EntriesOf(last.err, format) = {}
          /\ EntriesOf(last.err, "at least one state is required") # {}
                => EntriesOf(last.err, "initial state must be set") # {}

\* C33 witness: Build of a Builder that rejects duplicates and has an initial
\* state, an accepting state and a transition
C33_Witness ==
    /\ last.op = "Build"
    /\ builder.options.preventOverwriteTransitions
    /\ builder.initialSet
    /\ builder.accepting # {}
    /\ DOMAIN builder.transitions # {}

\* C34: without options, after calls of the Builder's methods only, Build
\* succeeds iff SetInitial was called and the alphabet has a symbol; its
\* failures are only the missing initial state, the empty Q and the empty
\* alphabet, whatever the states, accepting states and transitions are.
C34_BuildsIffInitialAndSymbol ==
    (last.op = "Build" /\ builder.options = DefaultOptions) =>
       /\ (last.err = NilErr) <=> (builder.initialSet /\ builder.symbols # {})
       /\ \A e \in BagToSet(Errors(last.err)) :
             e.format \in {"initial state must be set",
                           "at least one state is required",
                           "at least one input symbol is required"}
       /\ EntriesOf(last.err, "initial state must be set") # {}
             <=> ~builder.initialSet
       /\ EntriesOf(last.err, "at least one input symbol is required") # {}
             <=> builder.symbols = {}

\* C34 witness: a Builder without options, accepting states and transitions,
\* with an unreachable second state, builds
C34_Witness ==
    /\ last.op = "Build" /\ last.err = NilErr
    /\ builder.options = DefaultOptions
    /\ builder.accepting = {}
    /\ DOMAIN builder.transitions = {}
    /\ Cardinality(builder.states) = 2

\* C35: an On(from, sym, to) that panics under preventOverwriteTransitions
\* is not a no-op.  It leaves every recorded target as it was, but it has
\* registered from, sym and to first: a `to` that was unknown is now in Q,
\* and a Build after the recovered panic checks it, reporting its missing
\* transitions under requireTotalTransitions and, when the initial state is
\* set, reporting it unreachable under errorOnUnreachableStates.
C35_RejectedOnRegisters ==
    /\ Len(calls) >= 1 /\ calls[Len(calls)].op = "On"
    /\ OnPanics(Replay(NewBuilder(builder.options), Earlier),
                calls[Len(calls)].from, calls[Len(calls)].sym)
    =>
    LET before == Replay(NewBuilder(builder.options), Earlier)
        call == calls[Len(calls)]
        total == Build(WithTotalPolicy(builder)).err
        unreachable == Build(WithUnreachablePolicy(builder)).err
    IN  /\ builder.transitions = before.transitions
        /\ builder.transitions[TransitionKey(call.from, call.sym)]
              = before.transitions[TransitionKey(call.from, call.sym)]
        /\ {call.from, call.to} \subseteq builder.states
        /\ call.sym \in builder.symbols
        /\ builder.states = before.states \cup {call.to}
        /\ call.to \notin before.states =>
              /\ builder # before
              /\ \A a \in builder.symbols :
                    newBuildError("missing transition from %v on %v", call.to, a)
                       \in BagToSet(Errors(total))
              /\ builder.options.requireTotalTransitions =>
                    Build(builder).err = total
              /\ builder.initialSet =>
                    newBuildError("unreachable state %v", call.to, None)
                       \in BagToSet(Errors(unreachable))

\* C35 witness: on a Builder with requireTotalTransitions and its initial
\* state set, the third call, an On with an unknown target, has panicked
C35_Witness ==
    /\ Len(calls) = 3 /\ last.op = "On" /\ last.panicked
    /\ builder.initialSet
    /\ calls[3].to \notin Replay(NewBuilder(builder.options), Earlier).states
    /\ builder.options.requireTotalTransitions
    /\ builder.transitions[TransitionKey(calls[3].from, calls[3].sym)] # calls[3].to

\* C36: replacing the initial state does not unregister the one replaced.
\* After SetInitial(a) and a later SetInitial(b), a # b, a is still in Q;
\* so Build under errorOnUnreachableStates reports a unreachable unless a is
\* reachable from the initial state, and Build under requireTotalTransitions
\* reports a missing transition of a for every symbol it has none on.
C36_ReplacedInitialStays ==
    \A i \in SetInitialCalls :
       LET a == calls[i].state
           unreachable == Build(WithUnreachablePolicy(builder)).err
           total == Build(WithTotalPolicy(builder)).err
       IN  a # builder.initialState =>
              /\ a \in builder.states
              /\ (newBuildError("unreachable state %v", a, None)
                     \in BagToSet(Errors(unreachable)))
                    <=> a \notin ReachableFromInitial(builder)
              /\ unreachable = NilErr => a \in ReachableFromInitial(builder)
              /\ \A sym \in builder.symbols :
                    (newBuildError("missing transition from %v on %v", a, sym)
                       \in BagToSet(Errors(total)))
                      <=> ~(TransitionKey(a, sym) \in DOMAIN builder.transitions)
              /\ total = NilErr =>
                    \A sym \in builder.symbols :
                       TransitionKey(a, sym) \in DOMAIN builder.transitions

\* C36 witness: the initial state was replaced, a transition was added, and
\* the replaced state, without transitions, is not reachable
C36_Witness ==
    /\ Len(calls) = 3
    /\ calls[1].op = "SetInitial" /\ calls[2].op = "SetInitial"
    /\ calls[1].state # calls[2].state
    /\ calls[3].op = "On"
    /\ calls[1].state \notin ReachableFromInitial(builder)
    /\ Build(WithUnreachablePolicy(builder)).err # NilErr
    /\ Build(WithTotalPolicy(builder)).err # NilErr

\* C37: with errorWhenNoAcceptingReachable and the initial state set, Build
\* fails whenever F is empty, with or without requireAtLeastOneAccepting: it
\* reports "no accepting state reachable from initial" once, and "at least
\* one accepting state required" once more exactly when that policy is on
\* too.  When the initial state is in F the reachability entry is not
\* reported, whatever the transitions are.
C37_EmptyAcceptingUnreachable ==
    (/\ last.op = "Build"
     /\ builder.options.errorWhenNoAcceptingReachable
     /\ builder.initialSet) =>
       /\ builder.accepting = {} =>
             /\ last.err # NilErr
             /\ CopiesIn(newBuildError("no accepting state reachable from initial",
                                       None, None),
                         Errors(last.err)) = 1
             /\ CopiesIn(newBuildError("at least one accepting state required",
                                       None, None),
                         Errors(last.err))
                   = IF builder.options.requireAtLeastOneAccepting THEN 1 ELSE 0
       /\ builder.initialState \in builder.accepting =>
             EntriesOf(last.err, "no accepting state reachable from initial") = {}

\* C37 witness: Build with both accepting policies on a Builder with its
\* initial state, a transition and no accepting state
C37_Witness ==
    /\ last.op = "Build"
    /\ builder.options.errorWhenNoAcceptingReachable
    /\ builder.options.requireAtLeastOneAccepting
    /\ builder.initialSet
    /\ builder.accepting = {}
    /\ DOMAIN builder.transitions # {}
    /\ BagCardinality(Errors(last.err)) = 2

\* C38: ModThree returns the value of a string of binary digits, read most
\* significant digit first, modulo 3, and nil; 0 and nil for the empty
\* string.  For a string with another character it returns, without
\* evaluating the machine, the error that names the first such character and
\* its position counted from 0 ("102": '2' at position 2).  It never returns
\* a TransitionError or an "unexpected final state" error, and a result
\* without error is 0, 1 or 2.
C38_ModThree ==
    last.op = "ModThree" =>
       /\ IF IsBinary(last.binary)
          THEN /\ last.err = NilErr
               /\ last.value = BinaryValue(last.binary) % 3
               /\ last.binary = <<>> => last.value = 0
          ELSE LET n == First({i \in 1..Len(last.binary) :
                                 last.binary[i] \notin {"0", "1"}})
               IN  /\ last.err
                         = Errorf("invalid binary character '%c' at position %d",
                                  last.binary[n], n - 1)
                   /\ ~last.evaluated
       /\ last.err.type # "TransitionError"
       /\ last.err.type = "error" => last.err.format # "unexpected final state %q"
       /\ last.err = NilErr => last.value \in {0, 1, 2}
       /\ last.binary = <<"1", "0", "2">> =>
             last.err = Errorf("invalid binary character '%c' at position %d", "2", 2)

\* C38 witness: ModThree has rejected a string whose first other character
\* comes after binary digits and before a character of two bytes
C38_Witness ==
    /\ last.op = "ModThree" /\ last.err # NilErr
    /\ Len(last.binary) = 4
    /\ IsBinary(SubSeq(last.binary, 1, 2))
    /\ last.binary[3] = "2"
    /\ last.binary[4] = "U+00E9"

\* C39: the traversal of checkReachability terminates.  When it has run (the
\* initial state is set and a reachability policy is on), no state is in the
\* queue twice, the queue holds the states of `reached` and so no more than
\* |Q| entries, and `reached` holds the initial state and, with a state, the
\* target of each of its transitions: it is the set of reachable states.
C39_TraversalTerminates ==
    (/\ last.op = "Build"
     /\ builder.initialSet
     /\ builder.options.errorOnUnreachableStates
           \/ builder.options.errorWhenNoAcceptingReachable) =>
       LET t == Traverse(builder, <<builder.initialState>>, {builder.initialState}, 1)
       IN  /\ NoRepeat(t.queue)
           /\ Labels(t.queue) = t.reached
           /\ Len(t.queue) <= Cardinality(builder.states)
           /\ builder.initialState \in t.reached
           /\ \A k \in DOMAIN builder.transitions :
                 k.From \in t.reached => builder.transitions[k] \in t.reached
           /\ t.reached = ReachableFromInitial(builder)
           /\ t.reached = Reached(builder)

\* C39 witness: the traversal ran on a cycle of two states through the
\* initial state
C39_Witness ==
    /\ last.op = "Build" /\ builder.initialSet
    /\ builder.options.errorOnUnreachableStates
    /\ \E k \in DOMAIN builder.transitions :
          /\ k.From # builder.initialState
          /\ builder.transitions[k] = builder.initialState
          /\ \E j \in DOMAIN builder.transitions :
                j.From = builder.initialState /\ builder.transitions[j] = k.From
    /\ Cardinality(Reached(builder)) = 2
====
